---- MODULE Spec2Model ----
(***************************************************************************)
(* A model of file_combiner.py: the archive codec (combine_files /         *)
(* split_files), the per-format encoders and decoders, the path sanitizer  *)
(* and the markdown fence computation.                                     *)
(*                                                                         *)
(* Text is modelled as a sequence of symbols.  A path is a sequence of     *)
(* path tokens ("/", "\\", "..", ".", "NUL" and name tokens such as "a",   *)
(* "l", "txt"); the path string is the concatenation of its tokens, so the *)
(* component made of the tokens "." "." is the same component as the one   *)
(* made of the token "..".  File content is a sequence of bytes, archive   *)
(* text a sequence of code points; preserve_permissions has its default    *)
(* (off), so modes and times are not part of the state.                    *)
(***************************************************************************)
EXTENDS Integers, Sequences, FiniteSets, TLC

(***************************************************************************)
(* Bounds of the model.                                                    *)
(***************************************************************************)
MaxPathLen == 5
MaxFenceLen == 6

VARIABLES
    pc,                     \* position of the operation being run
    unsafe_relative_path,   \* _sanitize_path: the path read from the archive
    sanitized,              \* _sanitize_path: its outcome
    fence_content,          \* _get_safe_fence: the content to wrap
    fence,                  \* _get_safe_fence: the fence returned
    source_files,           \* the source directory: file name -> bytes
    file_entries,           \* combine_files: the metadata collected, sorted
    format,                 \* the archive format in use
    archive,                \* the bytes of the archive file
    parsed,                 \* the entries a given archive holds, in order
    files_list,             \* split_files: the restore calls still to make
    out_files,              \* the file system: resolved path -> bytes
    out_dirs,               \* the file system: the directories
    files_restored,         \* split_files: the parser's counter
    result,                 \* what combine_files or split_files returned
    restore_log,            \* history: one record per restore call made
    temp_disk,              \* the temporary files on disk: name -> bytes
    _temp_files,            \* FileCombiner._temp_files
    source_kind,            \* combine_files: what source_path is
    input_kind,             \* split_files: what input_path is
    input_suffixes,         \* split_files: the suffixes of the input's name
    detected_format,        \* split_files: what _detect_input_format returned
    config,                 \* the FileCombiner's fields that filter the files
    exit_status,            \* the status the process has exited with: <<>> or <<n>>
    progress,               \* split_files: its argument progress
    stream_error,           \* the exception the archive's stream has yet to raise, or "none"
    stats,                  \* FileCombiner.stats: the four counters
    completed,              \* combine_files: the files whose future is done
    running,                \* the pool: file -> where its worker thread stands
    faults,                 \* the files that fail at collection, and where
    tree,                   \* the directories under source_path: their items
    scan_stack,             \* _scan_directory: the calls of scan_recursive
    visited_dirs,           \* _scan_directory: visited_dirs
    all_files,              \* _scan_directory: files
    scan_log,               \* history: the directories listed, the warnings
    unreadable,             \* the source files that cannot be opened for reading
    tasks,                  \* the read tasks created: entry -> state and result
    issued,                 \* history: the entries in the order of create_task
    write_log,              \* history: one record per entry written
    entry_index,            \* the encoder's loop: the entry awaited (i + 1)
    first_entry,            \* _write_json_streaming: first
    sink                    \* the text written to f so far

vars ==
    <<pc, unsafe_relative_path, sanitized, fence_content, fence, source_files,
      file_entries, format, archive, parsed, files_list, out_files, out_dirs,
      files_restored, result, restore_log, temp_disk, _temp_files, source_kind,
      input_kind, input_suffixes, detected_format, config, exit_status, progress, stream_error,
      stats, completed,
      running, faults, tree, scan_stack, visited_dirs, all_files, scan_log,
      unreadable, tasks, issued, write_log, entry_index, first_entry, sink>>

sanVars == <<unsafe_relative_path, sanitized>>
fenceVars == <<fence_content, fence>>
tempVars == <<temp_disk, _temp_files>>
combineVars == <<source_files, file_entries, tempVars>>
archiveVars == <<format, archive, parsed>>
splitVars == <<files_list, out_files, out_dirs, files_restored, restore_log>>
inputVars ==
    <<source_kind, input_kind, input_suffixes, config, exit_status, progress, stream_error>>
scanVars == <<stats, completed, running, faults>>
walkVars == <<tree, scan_stack, visited_dirs, all_files, scan_log>>
encodeVars == <<unreadable, tasks, issued, write_log, entry_index, first_entry, sink>>
fileVars ==
    <<combineVars, archiveVars, splitVars, result, inputVars, scanVars, encodeVars,
      walkVars, detected_format>>

(***************************************************************************)
(* Sequences.                                                              *)
(***************************************************************************)
SeqsUpTo(S, n) == UNION {[1..k -> S] : k \in 0..n}

Max(a, b) == IF a >= b THEN a ELSE b

\* str.replace(old, new) for one-symbol strings
Replace(s, old, new) == [i \in 1..Len(s) |-> IF s[i] = old THEN new ELSE s[i]]

\* str.lstrip(c)
RECURSIVE LStrip(_, _)
LStrip(s, c) == IF s # <<>> /\ Head(s) = c THEN LStrip(Tail(s), c) ELSE s

\* str.split(sep): the pieces between the separators, empty pieces kept
RECURSIVE SplitAcc(_, _, _)
SplitAcc(s, sep, cur) ==
    IF s = <<>> THEN <<cur>>
    ELSE IF Head(s) = sep THEN <<cur>> \o SplitAcc(Tail(s), sep, <<>>)
    ELSE SplitAcc(Tail(s), sep, Append(cur, Head(s)))

Split(s, sep) == SplitAcc(s, sep, <<>>)

(***************************************************************************)
(* Paths.  A resolved absolute path is the sequence of its components,     *)
(* each component a sequence of path tokens; <<>> is the filesystem root.  *)
(***************************************************************************)
PathTokens == {"/", "\\", "..", ".", "a", "l", "NUL"}

\* The resolved output directory, /a.
OutputRoot == << <<"a">> >>

\* The output directory holds one symbolic link, /a/l, that points to the
\* directory /l outside it.
LinkPath == << <<"a">>, <<"l">> >>
LinkTarget == << <<"l">> >>

NoPath == << <<"NUL">> >>

IsCurDir(c) == c = <<".">>
IsParentDir(c) == c = <<"..">> \/ c = <<".", ".">>

\* pathlib: base / relative.  The relative string is cut at "/" and its empty
\* and "." components are dropped; a relative string that starts with "/" is
\* absolute and replaces the base.
PathParts(rel) == SelectSeq(Split(rel, "/"), LAMBDA c : c # <<>> /\ ~IsCurDir(c))

JoinPath(base, rel) ==
    IF rel # <<>> /\ Head(rel) = "/" THEN PathParts(rel)
    ELSE base \o PathParts(rel)

\* Path.resolve(), os.path.realpath: ".." drops the last component (the
\* filesystem root is its own parent), a symbolic link is replaced by its target.
RECURSIVE RealPathFrom(_, _)
RealPathFrom(path, rest) ==
    IF rest = <<>> THEN path
    ELSE LET c == Head(rest) IN
         IF c = <<>> \/ IsCurDir(c) THEN RealPathFrom(path, Tail(rest))
         ELSE IF IsParentDir(c)
              THEN RealPathFrom(IF path = <<>> THEN <<>>
                                ELSE SubSeq(path, 1, Len(path) - 1), Tail(rest))
         ELSE IF Append(path, c) = LinkPath
              THEN RealPathFrom(LinkTarget, Tail(rest))
         ELSE RealPathFrom(Append(path, c), Tail(rest))

Resolve(path) == RealPathFrom(<<>>, path)

\* PurePath.relative_to(base) succeeds: base is a component-wise prefix
IsRelativeTo(path, base) ==
    Len(path) >= Len(base) /\ SubSeq(path, 1, Len(base)) = base

HasNullByte(s) == \E i \in 1..Len(s) : s[i] = "NUL"

SecurityError(why) == [outcome |-> "SecurityError", reason |-> why, path |-> NoPath]
Sanitized(target_path) == [outcome |-> "ok", reason |-> "", path |-> target_path]

\* _sanitize_path with the containment test made on the unresolved join
SanitizeNoResolve(base_dir, unsafe) ==
    LET base == Resolve(base_dir)
        normalized_path == LStrip(Replace(unsafe, "\\", "/"), "/")
    IN  IF HasNullByte(normalized_path) THEN SecurityError("null")
        ELSE IF ~IsRelativeTo(JoinPath(base, normalized_path), base)
             THEN SecurityError("traversal")
             ELSE Sanitized(Resolve(JoinPath(base, normalized_path)))
\* _sanitize_path without the lstrip("/")
SanitizeNoStrip(base_dir, unsafe) ==
    LET base == Resolve(base_dir)
        normalized_path == Replace(unsafe, "\\", "/")
    IN  IF HasNullByte(normalized_path) THEN SecurityError("null")
        ELSE LET target_path == Resolve(JoinPath(base, normalized_path))
             IN  IF ~IsRelativeTo(target_path, base)
                 THEN SecurityError("traversal")
                 ELSE Sanitized(target_path)
\* _sanitize_path without the null-byte test
SanitizeNoNullCheck(base_dir, unsafe) ==
    LET base == Resolve(base_dir)
        normalized_path == LStrip(Replace(unsafe, "\\", "/"), "/")
        target_path == Resolve(JoinPath(base, normalized_path))
    IN  IF ~IsRelativeTo(target_path, base)
        THEN SecurityError("traversal")
        ELSE Sanitized(target_path)
\* FileCombiner._sanitize_path
_sanitize_path(base_dir, unsafe) ==
    LET base == Resolve(base_dir)
        normalized_path == LStrip(Replace(unsafe, "\\", "/"), "/")
    IN  IF HasNullByte(normalized_path) THEN SecurityError("null")
        ELSE LET target_path == Resolve(JoinPath(base, normalized_path))
             IN  IF ~IsRelativeTo(target_path, base)
                 THEN SecurityError("traversal")
                 ELSE Sanitized(target_path)

(***************************************************************************)
(* FileCombiner._get_safe_fence                                            *)
(***************************************************************************)
\* "BT" is the backtick character
FenceChars == {"BT", "x", "\n"}

Backticks(n) == [i \in 1..n |-> "BT"]

\* the loop over the content: <<max_backticks, current_count>>
RECURSIVE CountBackticks(_, _, _)
CountBackticks(content, max_backticks, current_count) ==
    IF content = <<>> THEN max_backticks
    ELSE IF Head(content) = "BT"
         THEN CountBackticks(Tail(content),
                             Max(max_backticks, current_count + 1),
                             current_count + 1)
         ELSE CountBackticks(Tail(content), max_backticks, 0)

SafeFenceMutant(content, base_fence) ==
    LET max_backticks == CountBackticks(content, 0, 0)
    IN  IF max_backticks > Len(base_fence)
        THEN Backticks(max_backticks + 1)
        ELSE base_fence
_get_safe_fence(content, base_fence) ==
    LET max_backticks == CountBackticks(content, 0, 0)
    IN  IF max_backticks >= Len(base_fence)
        THEN Backticks(max_backticks + 1)
        ELSE base_fence

BaseFence == Backticks(3)

(***************************************************************************)
(* Text and bytes.  A byte is a number in 0..255 and a character is its    *)
(* code point.  A number from MacroBase on stands for one fixed ASCII       *)
(* string (the separator line, a line prefix, an encoding name, a JSON      *)
(* document): it is text of several ASCII characters none of which is a    *)
(* line break, and every codec below leaves it as it is.                    *)
(***************************************************************************)
LF == 10
CR == 13
SPACE == 32
HASH == 35

MacroBase == 2000000

IsMacro(c) == c >= MacroBase

\* FileCombiner.SEPARATOR, METADATA_PREFIX, ENCODING_PREFIX
SEPARATOR == 2000001
METADATA_PREFIX == 2000002
ENCODING_PREFIX == 2000003

\* the concatenation of a sequence of sequences, by halves
RECURSIVE Flatten(_)
Flatten(ss) ==
    IF ss = <<>> THEN <<>>
    ELSE IF Len(ss) = 1 THEN ss[1]
    ELSE Flatten(SubSeq(ss, 1, Len(ss) \div 2))
         \o Flatten(SubSeq(ss, (Len(ss) \div 2) + 1, Len(ss)))

Indices(s) == [i \in 1..Len(s) |-> i]

EndsWith(s, c) == s # <<>> /\ s[Len(s)] = c

\* str.rstrip(chars)
RECURSIVE RStrip(_, _)
RStrip(s, chars) ==
    IF s # <<>> /\ s[Len(s)] \in chars THEN RStrip(SubSeq(s, 1, Len(s) - 1), chars)
    ELSE s

\* the white space str.strip() removes, up to U+00A0
Whitespace == {SPACE, LF, CR, 9, 11, 12, 28, 29, 30, 31, 133, 160}

\* str.strip()
RECURSIVE LStripSet(_, _)
LStripSet(s, chars) ==
    IF s # <<>> /\ Head(s) \in chars THEN LStripSet(Tail(s), chars) ELSE s

Strip(s) == RStrip(LStripSet(s, Whitespace), Whitespace)

\* "\n".join(lines)
JoinLines(lines) ==
    Flatten([i \in 1..Len(lines) |->
               IF i < Len(lines) THEN lines[i] \o <<LF>> ELSE lines[i]])

\* Reading in text mode with newline=None: "\r\n" and "\r" become "\n".
UniversalNewlines(s) ==
    LET kept == SelectSeq(Indices(s), LAMBDA i : ~(s[i] = LF /\ i > 1 /\ s[i - 1] = CR))
    IN  [k \in 1..Len(kept) |-> IF s[kept[k]] = CR THEN LF ELSE s[kept[k]]]

\* Iterating over a text file: the lines, each with its "\n" if it has one.
FileLines(s) ==
    LET ends == SelectSeq(Indices(s), LAMBDA i : s[i] = LF)
        last == IF ends = <<>> THEN 0 ELSE ends[Len(ends)]
        whole == [k \in 1..Len(ends) |->
                    SubSeq(s, (IF k = 1 THEN 1 ELSE ends[k - 1] + 1), ends[k])]
    IN  IF last < Len(s) THEN Append(whole, SubSeq(s, last + 1, Len(s))) ELSE whole

DecodeError == [ok |-> FALSE, text |-> <<>>]
Decoded(t) == [ok |-> TRUE, text |-> t]

IsCont(b) == b >= 128 /\ b <= 191

\* bytes.decode("utf-8", errors="strict"): the length of the sequence that
\* starts at b[i] (0 when b[i] starts none), whether its bytes are there and
\* well formed, and its code point
Utf8SeqLen(b1) ==
    IF IsMacro(b1) \/ b1 < 128 THEN 1
    ELSE IF b1 >= 194 /\ b1 <= 223 THEN 2
    ELSE IF b1 >= 224 /\ b1 <= 239 THEN 3
    ELSE IF b1 >= 240 /\ b1 <= 244 THEN 4
    ELSE 0

Utf8SeqOk(b, i, n) ==
    /\ n > 0
    /\ i + n - 1 <= Len(b)
    /\ \A k \in 1..(n - 1) : IsCont(b[i + k])
    /\ n = 3 => ~(b[i] = 224 /\ b[i + 1] < 160) /\ ~(b[i] = 237 /\ b[i + 1] > 159)
    /\ n = 4 => ~(b[i] = 240 /\ b[i + 1] < 144) /\ ~(b[i] = 244 /\ b[i + 1] > 143)

Utf8CodePoint(b, i, n) ==
    CASE n = 1 -> b[i]
      [] n = 2 -> (b[i] - 192) * 64 + (b[i + 1] - 128)
      [] n = 3 -> (b[i] - 224) * 4096 + (b[i + 1] - 128) * 64 + (b[i + 2] - 128)
      [] n = 4 -> (b[i] - 240) * 262144 + (b[i + 1] - 128) * 4096
                  + (b[i + 2] - 128) * 64 + (b[i + 3] - 128)

\* every byte that is not a continuation byte starts a sequence; the bytes
\* decode when each sequence is well formed and ends where the next starts
Utf8Decode(b) ==
    LET starts == SelectSeq(Indices(b), LAMBDA i : ~IsCont(b[i]))
        seq_len(k) == Utf8SeqLen(b[starts[k]])
        seq_end(k) == IF k < Len(starts) THEN starts[k + 1] ELSE Len(b) + 1
    IN  IF b = <<>> THEN Decoded(<<>>)
        ELSE IF starts = <<>> \/ starts[1] # 1 THEN DecodeError
        ELSE IF \E k \in 1..Len(starts) :
                   \/ ~Utf8SeqOk(b, starts[k], seq_len(k))
                   \/ starts[k] + seq_len(k) # seq_end(k)
             THEN DecodeError
        ELSE Decoded([k \in 1..Len(starts) |-> Utf8CodePoint(b, starts[k], seq_len(k))])

\* bytes.decode("utf-8-sig"): a leading byte order mark is dropped
Utf8SigDecode(b) ==
    IF Len(b) >= 3 /\ SubSeq(b, 1, 3) = <<239, 187, 191>>
    THEN Utf8Decode(SubSeq(b, 4, Len(b)))
    ELSE Utf8Decode(b)

\* bytes.decode("latin1"), bytes.decode("iso-8859-1"): every byte is its code point
Latin1Decode(b) == Decoded(b)

\* bytes.decode("cp1252"): the bytes 0x80..0x9f differ from latin1, five are undefined
Cp1252High ==
    <<8364, 0, 8218, 402, 8222, 8230, 8224, 8225, 710, 8240, 352, 8249, 338, 0, 381, 0,
      0, 8216, 8217, 8220, 8221, 8226, 8211, 8212, 732, 8482, 353, 8250, 339, 0, 382, 376>>

Cp1252Decode(b) ==
    IF \E i \in 1..Len(b) : b[i] >= 128 /\ b[i] <= 159 /\ Cp1252High[b[i] - 127] = 0
    THEN DecodeError
    ELSE Decoded([i \in 1..Len(b) |->
                    IF b[i] >= 128 /\ b[i] <= 159 THEN Cp1252High[b[i] - 127] ELSE b[i]])

DecodeWith(encoding, b) ==
    CASE encoding = "utf-8" -> Utf8Decode(b)
      [] encoding = "utf-8-sig" -> Utf8SigDecode(b)
      [] encoding = "latin1" -> Latin1Decode(b)
      [] encoding = "cp1252" -> Cp1252Decode(b)
      [] encoding = "iso-8859-1" -> Latin1Decode(b)

\* str.encode("utf-8")
Utf8EncodeChar(c) ==
    IF IsMacro(c) \/ c < 128 THEN <<c>>
    ELSE IF c < 2048 THEN <<192 + (c \div 64), 128 + (c % 64)>>
    ELSE IF c < 65536
         THEN <<224 + (c \div 4096), 128 + ((c \div 64) % 64), 128 + (c % 64)>>
    ELSE <<240 + (c \div 262144), 128 + ((c \div 4096) % 64),
           128 + ((c \div 64) % 64), 128 + (c % 64)>>

Utf8Encode(t) == Flatten([i \in 1..Len(t) |-> Utf8EncodeChar(t[i])])

(***************************************************************************)
(* base64                                                                  *)
(***************************************************************************)
PAD == 61

B64Char(v) ==
    IF v < 26 THEN 65 + v
    ELSE IF v < 52 THEN 97 + (v - 26)
    ELSE IF v < 62 THEN 48 + (v - 52)
    ELSE IF v = 62 THEN 43 ELSE 47

IsB64Char(c) ==
    \/ (c >= 65 /\ c <= 90)
    \/ (c >= 97 /\ c <= 122)
    \/ (c >= 48 /\ c <= 57)
    \/ c = 43
    \/ c = 47

B64Value(c) ==
    IF c >= 65 /\ c <= 90 THEN c - 65
    ELSE IF c >= 97 /\ c <= 122 THEN c - 97 + 26
    ELSE IF c >= 48 /\ c <= 57 THEN c - 48 + 52
    ELSE IF c = 43 THEN 62 ELSE 63

\* base64.b64encode
RECURSIVE B64Encode(_)
B64Encode(b) ==
    IF b = <<>> THEN <<>>
    ELSE IF Len(b) = 1
         THEN <<B64Char(b[1] \div 4), B64Char((b[1] % 4) * 16), PAD, PAD>>
    ELSE IF Len(b) = 2
         THEN <<B64Char(b[1] \div 4), B64Char((b[1] % 4) * 16 + (b[2] \div 16)),
                B64Char((b[2] % 16) * 4), PAD>>
    ELSE <<B64Char(b[1] \div 4), B64Char((b[1] % 4) * 16 + (b[2] \div 16)),
           B64Char((b[2] % 16) * 4 + (b[3] \div 64)), B64Char(b[3] % 64)>>
         \o B64Encode(SubSeq(b, 4, Len(b)))

\* binascii.a2b_base64, not strict: characters outside the alphabet are
\* skipped, a complete pad sequence ends the input, and data left over in an
\* unfinished quad is an error.  leftchar holds the bits not yet written out.
RECURSIVE A2bBase64(_, _, _, _, _)
A2bBase64(s, quad_pos, pads, leftchar, out) ==
    IF s = <<>> THEN (IF quad_pos # 0 THEN DecodeError ELSE Decoded(out))
    ELSE LET c == Head(s) IN
         IF c = PAD
         THEN IF quad_pos >= 2 /\ quad_pos + pads + 1 >= 4 THEN Decoded(out)
              ELSE A2bBase64(Tail(s), quad_pos,
                             IF quad_pos >= 2 THEN pads + 1 ELSE pads, leftchar, out)
         ELSE IF ~IsB64Char(c) THEN A2bBase64(Tail(s), quad_pos, pads, leftchar, out)
         ELSE LET v == B64Value(c) IN
              CASE quad_pos = 0 -> A2bBase64(Tail(s), 1, 0, v, out)
                [] quad_pos = 1 ->
                     A2bBase64(Tail(s), 2, 0, v % 16,
                               Append(out, leftchar * 4 + (v \div 16)))
                [] quad_pos = 2 ->
                     A2bBase64(Tail(s), 3, 0, v % 4,
                               Append(out, leftchar * 16 + (v \div 4)))
                [] quad_pos = 3 ->
                     A2bBase64(Tail(s), 0, 0, 0, Append(out, leftchar * 64 + v))

\* base64.b64decode(str): the string must be ASCII (a ValueError otherwise)
B64Decode(s) ==
    IF \E i \in 1..Len(s) : s[i] > 127 THEN DecodeError
    ELSE A2bBase64(s, 0, 0, 0, <<>>)

(***************************************************************************)
(* Archive entries.  The "path" of an entry is a sequence of path tokens;  *)
(* in archive text a JSON metadata document is one symbol, the code of the *)
(* dictionary it holds, and an encoding name is one symbol.                *)
(***************************************************************************)
EncodingNames == <<"utf-8", "utf-8-sig", "latin1", "cp1252", "iso-8859-1", "base64">>

TextName == <<"a", ".", "txt">>
OtherTextName == <<"a", "a", ".", "txt">>
DataName == <<"a", ".", "bin">>
SubdirName == <<"a", "/", "a", ".", "txt">>

\* the paths an archive of the model can name: the source files, then
\* hostile ones (parent directory, backslashes, the symbolic link, NUL),
\* then a source file in a subdirectory
PathTable ==
    << TextName, OtherTextName, DataName,
       <<"..", "\\", "l", "/", "a">>,
       <<"/", "l", "/", "a">>,
       <<"a", "NUL">>,
       SubdirName >>

IndexOf(seq, x) == CHOOSE i \in 1..Len(seq) : seq[i] = x

EncBase == 2000100
JsonBase == 2001000

EncSym(encoding) == EncBase + IndexOf(EncodingNames, encoding)
IsEncSym(c) == c > EncBase /\ c <= EncBase + Len(EncodingNames)
EncName(c) == EncodingNames[c - EncBase]

BoolCode(b) == IF b THEN 1 ELSE 0

\* json.dumps(asdict(metadata)): the fields restoring reads
JsonDumps(md) ==
    JsonBase + 1
    + ((IndexOf(PathTable, md.path) - 1) * Len(EncodingNames)
       + (IndexOf(EncodingNames, md.encoding) - 1)) * 4
    + BoolCode(md.is_binary) * 2 + BoolCode(md.ends_with_newline)

IsJsonSym(c) == c > JsonBase /\ c <= JsonBase + Len(PathTable) * Len(EncodingNames) * 4

JsonValue(c) ==
    LET k == c - JsonBase - 1
    IN  [path |-> PathTable[(k \div (4 * Len(EncodingNames))) + 1],
         encoding |-> EncodingNames[((k \div 4) % Len(EncodingNames)) + 1],
         is_binary |-> (k \div 2) % 2 = 1,
         ends_with_newline |-> k % 2 = 1]

\* json.loads(text): of the texts of this model only a lone JSON symbol is
\* a JSON document
JsonLoads(text) ==
    IF Len(text) = 1 /\ IsJsonSym(text[1])
    THEN [ok |-> TRUE, value |-> JsonValue(text[1])]
    ELSE [ok |-> FALSE, value |-> <<>>]

(***************************************************************************)
(* The output directory: the regular files under their resolved paths, and *)
(* the directories.  The symbolic link LinkPath is there from the start    *)
(* and nothing the program does removes or adds one.                        *)
(***************************************************************************)
ParentDirs(path) == {SubSeq(path, 1, k) : k \in 0..(Len(path) - 1)}

WriteFile(files, path, data) ==
    [p \in (DOMAIN files) \cup {path} |-> IF p = path THEN data ELSE files[p]]

Raised(kind, files, dirs) ==
    [raised |-> kind, files |-> files, dirs |-> dirs, wrote |-> NoPath]

Restored(files, dirs, path) ==
    [raised |-> "none", files |-> files, dirs |-> dirs, wrote |-> path]

\* lines 2576-2589: the content from its lines
RestoreContent(metadata, content_lines) ==
    IF content_lines = <<>> THEN <<>>
    ELSE LET content == JoinLines(content_lines)
         IN  IF metadata.ends_with_newline /\ ~EndsWith(content, LF)
             THEN content \o <<LF>>
             ELSE IF ~metadata.ends_with_newline /\ EndsWith(content, LF)
                  THEN RStrip(content, {LF})
                  ELSE content

\* The operating system opens a path after following its links.
RestoreWithoutSanitizing(output_path, files, dirs, metadata, encoding, content_lines) ==
    LET file_path == Resolve(JoinPath(output_path, metadata.path))
        made == dirs \cup ParentDirs(file_path)
        content == RestoreContent(metadata, content_lines)
    IN  IF \E d \in ParentDirs(file_path) : d \in DOMAIN files
        THEN Raised("OSError", files, dirs)
        ELSE IF encoding = "base64" \/ metadata.is_binary
             THEN LET binary_content == B64Decode(content)
                  IN  IF ~binary_content.ok THEN Raised("ValueError", files, made)
                      ELSE IF file_path \in made THEN Raised("OSError", files, made)
                      ELSE Restored(WriteFile(files, file_path, binary_content.text),
                                    made, file_path)
             ELSE IF file_path \in made THEN Raised("OSError", files, made)
                  ELSE Restored(WriteFile(files, file_path, Utf8Encode(content)),
                                made, file_path)

_restore_file_sync(output_path, files, dirs, metadata, encoding, content_lines) ==
    LET sanitized_path == _sanitize_path(output_path, metadata.path) IN
    IF sanitized_path.outcome # "ok" THEN Raised("SecurityError", files, dirs)
    ELSE LET file_path == Resolve(sanitized_path.path)
             made == dirs \cup ParentDirs(file_path)
             content == RestoreContent(metadata, content_lines)
         IN  IF \E d \in ParentDirs(file_path) : d \in DOMAIN files
             THEN Raised("OSError", files, dirs)
             ELSE IF encoding = "base64" \/ metadata.is_binary
                  THEN LET binary_content == B64Decode(content)
                       IN  IF ~binary_content.ok THEN Raised("ValueError", files, made)
                           ELSE IF file_path \in made THEN Raised("OSError", files, made)
                           ELSE Restored(WriteFile(files, file_path, binary_content.text),
                                         made, file_path)
                  ELSE IF file_path \in made THEN Raised("OSError", files, made)
                       ELSE Restored(WriteFile(files, file_path, Utf8Encode(content)),
                                     made, file_path)

\* _restore_file: a base64 or value error is logged and swallowed, any other
\* exception is raised again to the parser's loop
_restore_file(output_path, files, dirs, metadata, encoding, content_lines) ==
    LET r == _restore_file_sync(output_path, files, dirs, metadata, encoding, content_lines)
    IN  IF r.raised = "ValueError" THEN [r EXCEPT !.raised = "none"] ELSE r

(***************************************************************************)
(* _parse_and_restore_files: the txt parser.  Its loop keeps four locals   *)
(* and calls _restore_file when an entry is complete; restoring does not   *)
(* change the locals, so the parser is the function from the lines to the  *)
(* calls it makes, in order, and the calls are then made one per step.     *)
(***************************************************************************)
NoMetadata == [ok |-> FALSE, value |-> <<>>]

FileCall(metadata, encoding, content_lines) ==
    [metadata |-> metadata, encoding |-> encoding, content_lines |-> content_lines]

\* line[len(self.ENCODING_PREFIX):].strip(): an encoding name, or other text
TxtEncoding(text) ==
    IF Len(text) = 1 /\ IsEncSym(text[1]) THEN EncName(text[1]) ELSE "other"

StartsWith(line, c) == line # <<>> /\ Head(line) = c

RECURSIVE TxtParse(_, _, _, _, _)
TxtParse(lines, current_metadata, current_encoding, current_content, in_content) ==
    IF lines = <<>>
    THEN IF current_metadata.ok
         THEN <<FileCall(current_metadata.value, current_encoding, current_content)>>
         ELSE <<>>
    ELSE LET line == RStrip(Head(lines), {LF, CR})
             rest == Tail(lines)
         IN  IF line = <<SEPARATOR>>
             THEN (IF current_metadata.ok
                   THEN <<FileCall(current_metadata.value, current_encoding,
                                   current_content)>>
                   ELSE <<>>)
                  \o TxtParse(rest, NoMetadata, "None", <<>>, FALSE)
             ELSE IF StartsWith(line, METADATA_PREFIX)
             THEN LET loaded == JsonLoads(Strip(Tail(line)))
                  IN  IF loaded.ok
                      THEN TxtParse(rest, loaded, current_encoding, current_content, FALSE)
                      ELSE TxtParse(rest, current_metadata, current_encoding,
                                    current_content, in_content)
             ELSE IF StartsWith(line, ENCODING_PREFIX)
             THEN TxtParse(rest, current_metadata, TxtEncoding(Strip(Tail(line))),
                           current_content, TRUE)
             ELSE IF ~in_content /\ (StartsWith(line, HASH) \/ Strip(line) = <<>>)
             THEN TxtParse(rest, current_metadata, current_encoding, current_content,
                           in_content)
             ELSE IF in_content /\ current_metadata.ok
             THEN TxtParse(rest, current_metadata, current_encoding,
                           Append(current_content, line), in_content)
             ELSE TxtParse(rest, current_metadata, current_encoding, current_content,
                           in_content)

\* a parser that takes text outside any entry for the content of a file
ParseHeaderless(text) ==
    IF Strip(text) = <<>> THEN <<>>
    ELSE <<FileCall([path |-> TextName, is_binary |-> FALSE, ends_with_newline |-> TRUE],
                    "utf-8", FileLines(text))>>

_parse_and_restore_files(text) == TxtParse(FileLines(text), NoMetadata, "None", <<>>, FALSE)

\* The loops of the other four parsers: the call made for one element of
\* files_list.
JsonFileCall(file_data) ==
    FileCall([path |-> file_data.path, is_binary |-> file_data.is_binary,
              ends_with_newline |-> file_data.ends_with_newline],
             file_data.encoding,
             IF file_data.content # <<>> THEN Split(file_data.content, LF) ELSE <<>>)

XmlFileCall(file_elem) ==
    FileCall([path |-> file_elem.path, is_binary |-> file_elem.is_binary,
              ends_with_newline |-> file_elem.ends_with_newline],
             file_elem.encoding,
             IF file_elem.content # <<>> THEN Split(file_elem.content, LF) ELSE <<>>)

YamlFileCall(file_data) ==
    FileCall([path |-> file_data.path, is_binary |-> file_data.is_binary,
              ends_with_newline |-> TRUE],
             file_data.encoding, file_data.content_lines)

MarkdownFileCall(file_data) ==
    FileCall([path |-> file_data.path, is_binary |-> file_data.is_binary,
              ends_with_newline |-> TRUE],
             file_data.encoding, file_data.content_lines)

\* write_txt_entry for an entry whose content is already text
TxtEntry(metadata, content) ==
    <<SEPARATOR, LF>>
    \o <<METADATA_PREFIX, SPACE, JsonDumps(metadata), LF>>
    \o <<ENCODING_PREFIX, SPACE, EncSym(metadata.encoding), LF>>
    \o content \o <<LF>>

\* the header _write_txt_streaming writes: comment lines, then a blank line
TxtHeader ==
    <<HASH, SPACE, SEPARATOR, LF, HASH, SPACE, METADATA_PREFIX, LF,
      HASH, SPACE, ENCODING_PREFIX, LF, HASH, LF, LF>>

(***************************************************************************)
(* combine_files: collecting metadata, reading content.                    *)
(***************************************************************************)
\* the characters of a name token, for comparing paths as strings
TokenChars(tok) ==
    CASE tok = "a" -> <<97>>
      [] tok = "." -> <<46>>
      [] tok = "/" -> <<47>>
      [] tok = "txt" -> <<116, 120, 116>>
      [] tok = "bin" -> <<98, 105, 110>>
      [] tok = "b" -> <<98>>
      [] tok = "f" -> <<102>>
      [] tok = "k" -> <<107>>
      [] tok = "l" -> <<108>>

PathString(path) == Flatten([i \in 1..Len(path) |-> TokenChars(path[i])])

\* s < t for strings, as Python compares them
RECURSIVE StrLess(_, _)
StrLess(s, t) ==
    IF t = <<>> THEN FALSE
    ELSE IF s = <<>> THEN TRUE
    ELSE IF Head(s) # Head(t) THEN Head(s) < Head(t)
    ELSE StrLess(Tail(s), Tail(t))

\* file_entries.sort(key=lambda x: x[0].path), on entries with distinct paths
RECURSIVE SortByPath(_)
SortByPath(entries) ==
    IF entries = {} THEN <<>>
    ELSE LET first == CHOOSE e \in entries :
                        \A o \in entries \ {e} :
                           StrLess(PathString(e.path), PathString(o.path))
         IN  <<first>> \o SortByPath(entries \ {first})

\* a list left in the order it has
KeepOrder(entries) == entries

\* file_entries.sort(key=lambda x: x[0].path) on the list as collected: each
\* entry goes after the entries before it whose path is not greater
RECURSIVE SortEntries(_)
SortEntries(entries) ==
    IF Len(entries) <= 1 THEN entries
    ELSE LET sorted == SortEntries(SubSeq(entries, 1, Len(entries) - 1))
             last == entries[Len(entries)]
             k == Cardinality({i \in 1..Len(sorted) :
                                 ~StrLess(PathString(last.path),
                                          PathString(sorted[i].path))})
         IN  SubSeq(sorted, 1, k) \o <<last>> \o SubSeq(sorted, k + 1, Len(sorted))

\* Path.suffix: the last component from its last dot on
Suffix(name) ==
    LET dots == SelectSeq(Indices(name), LAMBDA i : name[i] = "." /\ i > 1)
    IN  IF dots = <<>> THEN <<>> ELSE SubSeq(name, dots[Len(dots)], Len(name))

\* the entries of text_extensions the model's names can have
TextExtensions == { <<".", "txt">> }

\* mimetypes.guess_type
GuessType(name) ==
    CASE Suffix(name) = <<".", "txt">> -> "text/plain"
      [] Suffix(name) = <<".", "bin">> -> "application/octet-stream"
      [] OTHER -> "None"

\* the number of bytes a symbol of a file stands for
SEPARATOR_LEN == 22
METADATA_PREFIX_LEN == 14
ENCODING_PREFIX_LEN == 9

ByteCount(c) ==
    CASE c = SEPARATOR -> SEPARATOR_LEN
      [] c = METADATA_PREFIX -> METADATA_PREFIX_LEN
      [] c = ENCODING_PREFIX -> ENCODING_PREFIX_LEN
      [] OTHER -> 1

RECURSIVE SizeOf(_)
SizeOf(data) == IF data = <<>> THEN 0 ELSE ByteCount(Head(data)) + SizeOf(Tail(data))

IsPrintable(c) == IsMacro(c) \/ (c >= 32 /\ c <= 126) \/ c \in {9, 10, 13}

\* _is_binary; the files of the model are shorter than the 8192-byte sample
_is_binary(name, data) ==
    IF Suffix(name) \in TextExtensions THEN FALSE
    ELSE IF GuessType(name) = "text/plain" THEN FALSE
    ELSE IF SizeOf(data) = 0 THEN FALSE
    ELSE IF \E i \in 1..Len(data) : data[i] = 0 THEN TRUE
    ELSE 10 * SizeOf(SelectSeq(data, IsPrintable)) < 7 * SizeOf(data)

\* _collect_file_metadata: the fields of FileMetadata the archive round trip
\* reads; ends_with_newline has its default
FileMetadataOf(name, data) ==
    [path |-> name,
     size |-> SizeOf(data),
     is_binary |-> _is_binary(name, data),
     encoding |-> IF _is_binary(name, data) THEN "base64" ELSE "utf-8",
     ends_with_newline |-> FALSE]

\* the encodings _read_file_content tries, in its order
TextEncodings == <<"utf-8", "utf-8-sig", "latin1", "cp1252", "iso-8859-1">>

\* the first encoding, from position k on, in which the bytes decode; 0: none
RECURSIVE FirstDecoding(_, _)
FirstDecoding(data, k) ==
    IF k > Len(TextEncodings) THEN 0
    ELSE IF DecodeWith(TextEncodings[k], data).ok THEN k
    ELSE FirstDecoding(data, k + 1)

ReadSetsSize(metadata, data) ==
    [metadata |-> [metadata EXCEPT !.size = Len(data) + 1], content |-> B64Encode(data)]

\* _read_file_content: the metadata as it leaves it, and the bytes returned
_read_file_content(metadata, data) ==
    IF metadata.is_binary
    THEN [metadata |-> metadata, content |-> B64Encode(data)]
    ELSE LET k == FirstDecoding(data, 1) IN
         IF k = 0
         THEN [metadata |-> [metadata EXCEPT !.is_binary = TRUE, !.encoding = "base64"],
               content |-> B64Encode(data)]
         ELSE LET content == UniversalNewlines(DecodeWith(TextEncodings[k], data).text)
              IN  [metadata |-> [metadata EXCEPT
                                   !.ends_with_newline = EndsWith(content, LF),
                                   !.encoding = TextEncodings[k]],
                   content |-> Utf8Encode(content)]

\* write_txt_entry: content.decode("ascii") or content.decode("utf-8")
ContentText(content) == Utf8Decode(content).text

(***************************************************************************)
(* The JSON archive.  Its text is JSON_OPEN (the header up to the opening  *)
(* of the "files" array, with the count of the header after it), the       *)
(* entries with JSON_COMMA between them, and JSON_CLOSE.  An entry is the  *)
(* symbol of its metadata members, its content as a JSON string, and       *)
(* OBJ_CLOSE.  White space between the tokens is left out.                  *)
(***************************************************************************)
QUOTE == 34
BACKSLASH == 92

JSON_OPEN == 2000004
JSON_CLOSE == 2000005
JSON_COMMA == 2000006
OBJ_CLOSE == 2000007
CountBase == 2000200

HexDigit(d) == IF d < 10 THEN 48 + d ELSE 97 + (d - 10)

IsHexDigit(c) == (c >= 48 /\ c <= 57) \/ (c >= 97 /\ c <= 102) \/ (c >= 65 /\ c <= 70)

HexValue(c) ==
    IF c >= 48 /\ c <= 57 THEN c - 48
    ELSE IF c >= 97 /\ c <= 102 THEN c - 97 + 10
    ELSE c - 65 + 10

\* json.dumps(text, ensure_ascii=False), one character
JsonEscapeChar(c) ==
    CASE c = QUOTE -> <<BACKSLASH, QUOTE>>
      [] c = BACKSLASH -> <<BACKSLASH, BACKSLASH>>
      [] c = 10 -> <<BACKSLASH, 110>>
      [] c = 13 -> <<BACKSLASH, 114>>
      [] c = 9 -> <<BACKSLASH, 116>>
      [] c = 8 -> <<BACKSLASH, 98>>
      [] c = 12 -> <<BACKSLASH, 102>>
      [] c < 32 /\ c \notin {8, 9, 10, 12, 13} ->
           <<BACKSLASH, 117, 48, 48, HexDigit(c \div 16), HexDigit(c % 16)>>
      [] OTHER -> <<c>>

JsonString(text) ==
    <<QUOTE>> \o Flatten([i \in 1..Len(text) |-> JsonEscapeChar(text[i])]) \o <<QUOTE>>

\* the entry _write_json_streaming writes for one file
JsonEntry(metadata, content) ==
    <<JsonDumps(metadata)>> \o JsonString(content) \o <<OBJ_CLOSE>>

\* the character a two-character escape stands for; 0: not an escape
SimpleEscape(c) ==
    CASE c = QUOTE -> QUOTE
      [] c = BACKSLASH -> BACKSLASH
      [] c = 47 -> 47
      [] c = 110 -> 10
      [] c = 114 -> 13
      [] c = 116 -> 9
      [] c = 98 -> 8
      [] c = 102 -> 12
      [] OTHER -> 0

NoString == [ok |-> FALSE, text |-> <<>>, next |-> 0]

\* json.loads on a string whose opening quote is before t[i]: the text, and
\* the position after the closing quote
RECURSIVE JsonScanString(_, _, _)
JsonScanString(t, i, out) ==
    IF i > Len(t) THEN NoString
    ELSE IF t[i] = QUOTE THEN [ok |-> TRUE, text |-> out, next |-> i + 1]
    ELSE IF t[i] = BACKSLASH
         THEN IF i + 1 > Len(t) THEN NoString
              ELSE IF t[i + 1] = 117
                   THEN IF i + 5 > Len(t) \/ \E k \in 2..5 : ~IsHexDigit(t[i + k])
                        THEN NoString
                        ELSE JsonScanString(t, i + 6,
                                 Append(out, HexValue(t[i + 2]) * 4096
                                             + HexValue(t[i + 3]) * 256
                                             + HexValue(t[i + 4]) * 16
                                             + HexValue(t[i + 5])))
                   ELSE IF SimpleEscape(t[i + 1]) = 0 THEN NoString
                        ELSE JsonScanString(t, i + 2, Append(out, SimpleEscape(t[i + 1])))
    ELSE IF t[i] < 32 THEN NoString
    ELSE JsonScanString(t, i + 1, Append(out, t[i]))

JSONDecodeError == [ok |-> FALSE, files |-> <<>>]

\* the elements of the "files" array from t[i] on; first: no element has
\* been read yet, and the array may close here
RECURSIVE JsonScanFiles(_, _, _, _)
JsonScanFiles(t, i, first, files) ==
    IF i > Len(t) THEN JSONDecodeError
    ELSE IF t[i] = JSON_CLOSE /\ first
         THEN (IF i = Len(t) THEN [ok |-> TRUE, files |-> files] ELSE JSONDecodeError)
    ELSE IF ~IsJsonSym(t[i]) \/ i + 1 > Len(t) \/ t[i + 1] # QUOTE THEN JSONDecodeError
    ELSE LET str == JsonScanString(t, i + 2, <<>>) IN
         IF ~str.ok \/ str.next + 1 > Len(t) \/ t[str.next] # OBJ_CLOSE
         THEN JSONDecodeError
         ELSE LET file_data == [path |-> JsonValue(t[i]).path,
                                is_binary |-> JsonValue(t[i]).is_binary,
                                encoding |-> JsonValue(t[i]).encoding,
                                ends_with_newline |-> JsonValue(t[i]).ends_with_newline,
                                content |-> str.text]
                  after == str.next + 1
              IN  IF t[after] = JSON_COMMA
                  THEN JsonScanFiles(t, after + 1, FALSE, Append(files, file_data))
                  ELSE IF t[after] = JSON_CLOSE /\ after = Len(t)
                  THEN [ok |-> TRUE, files |-> Append(files, file_data)]
                  ELSE JSONDecodeError

\* json.loads(content)["files"]
JsonLoadsArchive(t) ==
    IF Len(t) < 3 \/ t[1] # JSON_OPEN \/ t[2] < CountBase \/ t[2] >= JsonBase
    THEN JSONDecodeError
    ELSE JsonScanFiles(t, 3, TRUE, <<>>)

\* _write_txt_streaming over the entries read: [metadata, content]
_write_txt_streaming(reads) ==
    TxtHeader
    \o Flatten([i \in 1..Len(reads) |->
                  TxtEntry(reads[i].metadata, ContentText(reads[i].content))])

\* _write_json_streaming over the entries read
_write_json_streaming(reads) ==
    <<JSON_OPEN, CountBase + Len(reads)>>
    \o Flatten([i \in 1..Len(reads) |->
                  (IF i > 1 THEN <<JSON_COMMA>> ELSE <<>>)
                  \o JsonEntry(reads[i].metadata, ContentText(reads[i].content))])
    \o <<JSON_CLOSE>>

(***************************************************************************)
(* The markdown archive.  A symbol from MdBase on is one fixed piece of    *)
(* the writer's prose: MD_TEXT is text that starts with a letter or a      *)
(* digit, MD_BOLD a bold key other than the two the parser reads           *)
(* ("**Size:**", "**Date:**", ...), MD_ENCODING is "**Encoding:**",         *)
(* MD_BINARY is "**Binary:**", MD_STARS is "**", MD_YES and MD_NO are      *)
(* "Yes" and "No", MD_TOC is "Table of Contents", and MdBase + 100 + i is  *)
(* the i-th path of PathTable.                                              *)
(***************************************************************************)
BACKTICK == 96

MdBase == MacroBase + 300
MD_TEXT == MdBase + 1
MD_BOLD == MdBase + 2
MD_ENCODING == MdBase + 3
MD_BINARY == MdBase + 4
MD_STARS == MdBase + 5
MD_YES == MdBase + 6
MD_NO == MdBase + 7
MD_TOC == MdBase + 8
\* "Combined Files Archive", "**Generated by:** file-combiner v2.1.0" and
\* "**Date:** " with its 23 characters of date and time
MD_TITLE == MdBase + 9
MD_GENERATED == MdBase + 10
MD_DATE == MdBase + 11

PathSym(path) == MdBase + 100 + IndexOf(PathTable, path)
IsPathSym(c) == c > MdBase + 100 /\ c <= MdBase + 100 + Len(PathTable)

\* _get_safe_fence on text: the fence as text
SafeFence(content_str) ==
    LET chars == [i \in 1..Len(content_str) |->
                    IF content_str[i] = BACKTICK THEN "BT"
                    ELSE IF content_str[i] = LF THEN "\n" ELSE "x"]
        safe == _get_safe_fence(chars, BaseFence)
    IN  [i \in 1..Len(safe) |-> BACKTICK]

\* _detect_language: no suffix of the model's paths is a key of lang_map
_detect_language(path) == <<>>

\* "**key:** value  \n"
MdBoldLine == <<MD_BOLD, SPACE, MD_TEXT, SPACE, SPACE, LF>>

\* an entry written between fences of three backticks whatever it holds
MdEntryFixedFence(metadata, content_str) ==
    <<HASH, HASH, SPACE, PathSym(metadata.path), LF, LF>>
    \o MdBoldLine \o MdBoldLine
    \o <<MD_ENCODING, SPACE, EncSym(metadata.encoding), SPACE, SPACE, LF>>
    \o <<MD_BINARY, SPACE, (IF metadata.is_binary THEN MD_YES ELSE MD_NO),
         SPACE, SPACE, LF, LF>>
    \o [i \in 1..3 |-> BACKTICK] \o <<LF>> \o content_str
    \o <<LF>> \o [i \in 1..3 |-> BACKTICK] \o <<LF, LF>>

\* write_md_entry
write_md_entry(metadata, content_str) ==
    LET the_fence == SafeFence(content_str) IN
    <<HASH, HASH, SPACE, PathSym(metadata.path), LF, LF>>
    \o MdBoldLine \o MdBoldLine
    \o <<MD_ENCODING, SPACE, EncSym(metadata.encoding), SPACE, SPACE, LF>>
    \o <<MD_BINARY, SPACE, (IF metadata.is_binary THEN MD_YES ELSE MD_NO),
         SPACE, SPACE, LF, LF>>
    \o the_fence
    \o (IF metadata.is_binary THEN <<>> ELSE _detect_language(metadata.path))
    \o <<LF>> \o content_str
    \o <<LF>> \o the_fence \o <<LF, LF>>

\* _write_markdown_streaming over the entries read: the header, the table of
\* contents, the entries
_write_markdown_streaming(reads) ==
    <<HASH, SPACE, MD_TITLE, LF, LF>>
    \o <<MD_GENERATED, SPACE, SPACE, LF>> \o <<MD_DATE, SPACE, SPACE, LF>>
    \o <<MD_BOLD, SPACE, BACKTICK, MD_TEXT, BACKTICK, SPACE, SPACE, LF>>
    \o MdBoldLine \o MdBoldLine \o <<LF>>
    \o <<HASH, HASH, SPACE, MD_TOC, LF, LF>>
    \o Flatten([i \in 1..Len(reads) |-> <<MD_TEXT, LF>>]) \o <<LF>>
    \o Flatten([i \in 1..Len(reads) |->
                  write_md_entry(reads[i].metadata, ContentText(reads[i].content))])

\* content.split("\n")
SplitLines(s) ==
    LET ends == SelectSeq(Indices(s), LAMBDA i : s[i] = LF)
    IN  [k \in 1..(Len(ends) + 1) |->
           SubSeq(s, (IF k = 1 THEN 1 ELSE ends[k - 1] + 1),
                     (IF k <= Len(ends) THEN ends[k] - 1 ELSE Len(s)))]

\* _write_with_prefetch for write_xml_entry and write_yaml_entry: the file
\* elements, or the list entries, in the order of file_entries
_write_with_prefetch(reads) ==
    [i \in 1..Len(reads) |->
       [path |-> reads[i].metadata.path,
        is_binary |-> reads[i].metadata.is_binary,
        encoding |-> reads[i].metadata.encoding,
        ends_with_newline |-> reads[i].metadata.ends_with_newline,
        content |-> ContentText(reads[i].content),
        content_lines |-> SplitLines(ContentText(reads[i].content))]]

\* line.startswith(prefix)
HasPrefix(line, prefix) ==
    Len(line) >= Len(prefix) /\ SubSeq(line, 1, Len(prefix)) = prefix

\* lines 2472-2479: the backticks a line starts with
LeadingBackticks(line) ==
    LET n == CHOOSE k \in 0..Len(line) :
                /\ \A i \in 1..k : line[i] = BACKTICK
                /\ k < Len(line) => line[k + 1] # BACKTICK
    IN  SubSeq(line, 1, n)

\* line[3:].strip() as a path: a path of PathTable, or some other plain name
MdPath(text) ==
    IF Len(text) = 1 /\ IsPathSym(text[1]) THEN PathTable[text[1] - MdBase - 100]
    ELSE <<"a">>

\* lines 2463-2464: line.split(":", 1)[1].strip() for the text that follows
\* "**Encoding:**" on its line: what follows the first colon starts with the
\* two stars that close the bold key
MdEncoding(after_key) ==
    LET enc == Strip(<<MD_STARS>> \o after_key) IN
    IF Len(enc) = 3 /\ enc[2] = SPACE /\ IsEncSym(enc[3])
    THEN CASE EncName(enc[3]) = "utf-8" -> "** utf-8"
           [] EncName(enc[3]) = "utf-8-sig" -> "** utf-8-sig"
           [] EncName(enc[3]) = "latin1" -> "** latin1"
           [] EncName(enc[3]) = "cp1252" -> "** cp1252"
           [] EncName(enc[3]) = "iso-8859-1" -> "** iso-8859-1"
           [] OTHER -> "** base64"
    ELSE "other"

NoMdFile == [ok |-> FALSE, path |-> NoPath]

MdStart ==
    [files_list |-> <<>>, current_file |-> NoMdFile, in_code_block |-> FALSE,
     code_fence |-> <<>>, content_lines |-> <<>>, current_encoding |-> "utf-8",
     current_is_binary |-> FALSE]

\* lines 2445-2450 and 2494-2498: the file under way joins files_list
MdSave(st) ==
    IF st.current_file.ok
    THEN Append(st.files_list,
                [path |-> st.current_file.path, content_lines |-> st.content_lines,
                 encoding |-> st.current_encoding, is_binary |-> st.current_is_binary])
    ELSE st.files_list

\* lines 2441-2491: one turn of the loop over the lines
MdLine(st, line) ==
    IF HasPrefix(line, <<HASH, HASH, SPACE>>) /\ ~st.in_code_block
    THEN LET file_path == Strip(SubSeq(line, 4, Len(line))) IN
         IF file_path = <<MD_TOC>>
         THEN [st EXCEPT !.files_list = MdSave(st), !.current_file = NoMdFile]
         ELSE [MdStart EXCEPT !.files_list = MdSave(st),
                              !.current_file = [ok |-> TRUE, path |-> MdPath(file_path)]]
    ELSE IF ~st.current_file.ok THEN st
    ELSE LET md == IF HasPrefix(line, <<MD_ENCODING>>)
                   THEN [st EXCEPT !.current_encoding = MdEncoding(Tail(line))]
                   ELSE IF HasPrefix(line, <<MD_BINARY>>)
                   THEN [st EXCEPT !.current_is_binary =
                                      \E i \in 1..Len(line) : line[i] = MD_YES]
                   ELSE st
         IN  IF ~md.in_code_block /\ HasPrefix(line, <<BACKTICK, BACKTICK, BACKTICK>>)
             THEN [md EXCEPT !.in_code_block = TRUE,
                             !.code_fence = LeadingBackticks(RStrip(line, Whitespace))]
             ELSE IF md.in_code_block /\ RStrip(line, Whitespace) = md.code_fence
             THEN [md EXCEPT !.in_code_block = FALSE, !.code_fence = <<>>]
             ELSE IF md.in_code_block
             THEN [md EXCEPT !.content_lines = Append(md.content_lines, line)]
             ELSE md

\* lines 2440-2498: the loop over the lines, then the last file is saved;
\* each turn's state is computed before the next turn starts
RECURSIVE MdParse(_, _, _)
MdParse(lines, k, st) ==
    IF k > Len(lines) THEN MdSave(st)
    ELSE LET turn == MdLine(st, lines[k])
         IN  IF DOMAIN turn = DOMAIN MdStart THEN MdParse(lines, k + 1, turn)
             ELSE MdSave(turn)

\* _parse_markdown_archive up to its restore loop: files_list
_parse_markdown_archive(content) == MdParse(SplitLines(content), 1, MdStart)

(***************************************************************************)
(* The XML and YAML archives.  The text of an XML archive is the header   *)
(* the writer writes and one symbol per entry: XmlBase + i is the i-th     *)
(* file element of the archive; what the entry holds is parsed[i].         *)
(* XML_DECL is the XML declaration, XML_OPEN the start tag of file_archive *)
(* with its attributes, XML_CLOSE its end tag.  The text of a YAML archive *)
(* is its lines: YAML_KEY is a "key: value" line of the header other than  *)
(* "version: 2.1.0", which is YAML_VERSION, YAML_FILES is "files:", and    *)
(* YAML_PATH, YAML_SIZE, YAML_MTIME, YAML_ENC, YAML_IS_BINARY and          *)
(* YAML_CONTENT are the keys of a list item with the spaces before them:   *)
(* "  - path:", "    size:", "    mtime:", "    encoding:",                *)
(* "    is_binary:" and "    content: |".  YAML_FLOAT is the text of a     *)
(* floating point number, YAML_TRUE and YAML_FALSE are "true" and "false", *)
(* CountBase + n is the decimal text of n.                                 *)
(***************************************************************************)
XmlBase == MacroBase + 500
YAML_PATH == MacroBase + 601
YAML_SIZE == MacroBase + 602
YAML_MTIME == MacroBase + 603
YAML_ENC == MacroBase + 604
YAML_IS_BINARY == MacroBase + 605
YAML_CONTENT == MacroBase + 606
YAML_FLOAT == MacroBase + 607
YAML_TRUE == MacroBase + 608
YAML_FALSE == MacroBase + 609
APOSTROPHE == 39
XML_DECL == MacroBase + 491
XML_OPEN == MacroBase + 492
XML_CLOSE == MacroBase + 493
YAML_VERSION == MacroBase + 591
YAML_KEY == MacroBase + 592
YAML_FILES == MacroBase + 593

IsXmlFile(c) == c > XmlBase /\ c < XmlBase + 90

\* _write_xml_streaming
_write_xml_streaming(reads) ==
    <<XML_DECL, LF, XML_OPEN, LF>>
    \o Flatten([i \in 1..Len(reads) |-> <<SPACE, SPACE, XmlBase + i, LF>>])
    \o <<XML_CLOSE>>

\* the six spaces write_yaml_entry puts before each line of the content
YamlIndent == <<SPACE, SPACE, SPACE, SPACE, SPACE, SPACE>>

\* write_yaml_entry, lines 1588-1604
write_yaml_entry(metadata, content_str) ==
    <<YAML_PATH, SPACE, APOSTROPHE, PathSym(metadata.path), APOSTROPHE, LF>>
    \o <<YAML_SIZE, SPACE, CountBase + metadata.size, LF>>
    \o <<YAML_MTIME, SPACE, YAML_FLOAT, LF>>
    \o <<YAML_ENC, SPACE, APOSTROPHE, EncSym(metadata.encoding), APOSTROPHE, LF>>
    \o <<YAML_IS_BINARY, SPACE,
         (IF metadata.is_binary THEN YAML_TRUE ELSE YAML_FALSE), LF>>
    \o <<YAML_CONTENT, LF>>
    \o Flatten([k \in 1..Len(SplitLines(content_str)) |->
                  YamlIndent \o SplitLines(content_str)[k] \o <<LF>>])
    \o <<LF>>

\* _write_yaml_streaming
_write_yaml_streaming(reads) ==
    <<HASH, SPACE, MD_TITLE, LF, YAML_VERSION, LF, YAML_KEY, LF, YAML_KEY, LF,
      YAML_KEY, LF, YAML_KEY, LF, LF, YAML_FILES, LF>>
    \o Flatten([i \in 1..Len(reads) |->
                  write_yaml_entry(reads[i].metadata, ContentText(reads[i].content))])

ParseError == [ok |-> FALSE, files |-> <<>>]

\* ET.fromstring(content).findall("file"): one root element, which the
\* declaration may precede, character data and file elements inside it
XmlFromString(content, entries) ==
    LET t == Strip(content)
        root == IF t # <<>> /\ Head(t) = XML_DECL THEN Strip(Tail(t)) ELSE t
        inner == SubSeq(root, 2, Len(root) - 1)
        elems == SelectSeq(inner, IsXmlFile)
    IN  IF /\ Len(root) >= 2
           /\ Head(root) = XML_OPEN
           /\ root[Len(root)] = XML_CLOSE
           /\ \A i \in 1..Len(inner) :
                 /\ inner[i] \notin {XML_DECL, XML_OPEN, XML_CLOSE, 60, 38}
                 /\ IsXmlFile(inner[i]) => inner[i] - XmlBase <= Len(entries)
        THEN [ok |-> TRUE,
              files |-> [i \in 1..Len(elems) |-> entries[elems[i] - XmlBase]]]
        ELSE ParseError

\* line.split(":", 1)[1].strip().strip("'\"") for the text after a key
YamlValue(after_key) ==
    RStrip(LStripSet(Strip(after_key), {APOSTROPHE, QUOTE}), {APOSTROPHE, QUOTE})

\* int(text) and float(text) succeed
YamlIsInt(text) == Len(text) = 1 /\ text[1] >= CountBase /\ text[1] < CountBase + 100
YamlIsFloat(text) == YamlIsInt(text) \/ text = <<YAML_FLOAT>>

NoYamlFile == [ok |-> FALSE]

\* lines 2319-2322: the state of the parser before the first line
YamlStart ==
    [files_list |-> <<>>, current_file |-> NoYamlFile, in_content |-> FALSE,
     content_lines |-> <<>>, raised |-> "none"]

\* lines 2327-2329 and 2352-2354: the file being read joins the list
YamlSave(st) ==
    IF st.current_file.ok
    THEN Append(st.files_list,
                [path |-> st.current_file.path,
                 encoding |-> st.current_file.encoding,
                 is_binary |-> st.current_file.is_binary,
                 content_lines |-> st.content_lines])
    ELSE st.files_list

\* lines 2325-2350: one line of the archive.  What file_data.get returns for
\* a key no line gave is in the file from its start; size and mtime are
\* converted and never read again.
YamlLine(st, line) ==
    IF HasPrefix(line, <<YAML_PATH>>)
    THEN [st EXCEPT !.files_list = YamlSave(st),
                    !.current_file = [ok |-> TRUE, path |-> MdPath(YamlValue(Tail(line))),
                                      encoding |-> "utf-8", is_binary |-> FALSE],
                    !.content_lines = <<>>,
                    !.in_content = FALSE]
    ELSE IF ~st.current_file.ok THEN st
    ELSE IF HasPrefix(line, <<YAML_CONTENT>>) THEN [st EXCEPT !.in_content = TRUE]
    ELSE IF st.in_content
    THEN IF HasPrefix(line, YamlIndent)
         THEN [st EXCEPT !.content_lines = Append(@, SubSeq(line, 7, Len(line)))]
         ELSE IF Strip(line) = <<>> /\ st.content_lines # <<>>
         THEN [st EXCEPT !.content_lines = Append(@, <<>>)]
         ELSE [st EXCEPT !.in_content = FALSE]
    ELSE IF HasPrefix(line, <<YAML_SIZE>>)
    THEN IF YamlIsInt(Strip(Tail(line))) THEN st ELSE [st EXCEPT !.raised = "ValueError"]
    ELSE IF HasPrefix(line, <<YAML_MTIME>>)
    THEN IF YamlIsFloat(Strip(Tail(line))) THEN st ELSE [st EXCEPT !.raised = "ValueError"]
    ELSE IF HasPrefix(line, <<YAML_ENC>>)
    THEN [st EXCEPT !.current_file.encoding = TxtEncoding(YamlValue(Tail(line)))]
    ELSE IF HasPrefix(line, <<YAML_IS_BINARY>>)
    THEN [st EXCEPT !.current_file.is_binary = (Strip(Tail(line)) = <<YAML_TRUE>>)]
    ELSE st

\* lines 2324-2354: the loop over the lines, then the last file is saved; an
\* exception leaves the loop.  Each turn's state is computed before the next
\* turn starts.
RECURSIVE YamlParse(_, _, _)
YamlParse(lines, k, st) ==
    IF k > Len(lines) THEN [raised |-> "none", files |-> YamlSave(st)]
    ELSE LET turn == YamlLine(st, lines[k])
         IN  IF turn.raised # "none" THEN [raised |-> turn.raised, files |-> <<>>]
             ELSE YamlParse(lines, k + 1, turn)

\* _parse_yaml_archive up to its restore loop: the list items of the text;
\* lines 2416-2418: an exception in the loop over the lines ends the parse
\* with nothing to restore
YamlItems(content) == YamlParse(SplitLines(content), 1, YamlStart).files

\* _write_format_streaming: the text of the archive
_write_format_streaming(reads, format_type) ==
    CASE format_type = "xml" -> _write_xml_streaming(reads)
      [] format_type = "json" -> _write_json_streaming(reads)
      [] format_type = "markdown" -> _write_markdown_streaming(reads)
      [] format_type = "yaml" -> _write_yaml_streaming(reads)
      [] OTHER -> _write_txt_streaming(reads)

(***************************************************************************)
(* gzip.  A compressed file is the two magic bytes, the data, and          *)
(* GZ_TRAILER, the check sum and length that end the member.               *)
(***************************************************************************)
GZ_TRAILER == MacroBase + 700

\* a trailer whose check sum does not match the data
GZ_BAD_TRAILER == MacroBase + 701

GzipMagic == <<31, 139>>

GzipCompress(data) == GzipMagic \o data \o <<GZ_TRAILER>>

\* reading through gzip.open: BadGzipFile without the magic bytes or with a
\* wrong check sum, EOFError when the member does not end
GzipRead(data) ==
    IF ~HasPrefix(data, GzipMagic) THEN [ok |-> FALSE, raised |-> "BadGzipFile", data |-> <<>>]
    ELSE IF data[Len(data)] = GZ_BAD_TRAILER
    THEN [ok |-> FALSE, raised |-> "BadGzipFile", data |-> <<>>]
    ELSE IF data[Len(data)] # GZ_TRAILER
    THEN [ok |-> FALSE, raised |-> "EOFError", data |-> <<>>]
    ELSE [ok |-> TRUE, raised |-> "none", data |-> SubSeq(data, 3, Len(data) - 1)]

\* _is_gzip_file
_is_gzip_file(data) == HasPrefix(data, GzipMagic)

(***************************************************************************)
(* _detect_input_format.  A file name is given by its suffixes, the last   *)
(* one last: <<".json", ".gz">> for "archive.json.gz", <<>> for "archive". *)
(***************************************************************************)
\* format_map.get(suffix, "txt")
FormatOfSuffix(suffix) ==
    CASE suffix = ".json" -> "json"
      [] suffix = ".xml" -> "xml"
      [] suffix \in {".yaml", ".yml"} -> "yaml"
      [] suffix \in {".md", ".markdown"} -> "markdown"
      [] OTHER -> "txt"

\* the number of characters a symbol stands for; of a piece of prose whose
\* length depends on the run, the least it can have
SymLen(c) ==
    CASE c = MD_TITLE -> 22
      [] c = MD_GENERATED -> 38
      [] c = MD_DATE -> 33
      [] c = SEPARATOR -> SEPARATOR_LEN
      [] c = METADATA_PREFIX -> METADATA_PREFIX_LEN
      [] c = ENCODING_PREFIX -> ENCODING_PREFIX_LEN
      [] OTHER -> 1

\* the characters of text[1..n], counted by halves
RECURSIVE CharCount(_, _, _)
CharCount(text, from, to) ==
    IF from > to THEN 0
    ELSE IF from = to THEN SymLen(text[from])
    ELSE CharCount(text, from, (from + to) \div 2)
         + CharCount(text, ((from + to) \div 2) + 1, to)

\* read(sniff_chars): the symbols that lie within the first characters
FirstChars(text, sniff_chars) ==
    LET known == SubSeq(text, 1, IF Len(text) < sniff_chars THEN Len(text) ELSE sniff_chars)
        n == Cardinality({i \in 1..Len(known) : CharCount(known, 1, i) <= sniff_chars})
    IN  SubSeq(known, 1, n)

\* lines 1846-1855: the format the first characters show; a symbol the
\* window cuts still shows how it starts
SniffFormat(text, first_chars) ==
    LET t == LStripSet(text, Whitespace)
        window == Strip(first_chars)
        titled == HasPrefix(t, <<HASH, SPACE, MD_TITLE>>)
    IN  IF t # <<>> /\ Head(t) \in {123, JSON_OPEN} THEN "json"
        ELSE IF t # <<>> /\ Head(t) \in {XML_DECL, XML_OPEN} THEN "xml"
        ELSE IF titled /\ \E i \in 1..(Len(window) - 2) :
                              SubSeq(window, i, i + 2) = <<BACKTICK, BACKTICK, BACKTICK>>
        THEN "markdown"
        ELSE IF titled \/ (t # <<>> /\ Head(t) = YAML_VERSION
                            /\ \E i \in 1..Len(window) : window[i] = YAML_FILES)
        THEN "yaml"
        ELSE "txt"

SNIFF_CHARS == 100

\* _detect_input_format(input_path) for the file of these suffixes and bytes
_detect_input_format(suffixes, data) ==
    LET last == IF suffixes = <<>> THEN "" ELSE suffixes[Len(suffixes)]
        suffix == IF last = ".gz" /\ Len(suffixes) >= 2
                  THEN suffixes[Len(suffixes) - 1] ELSE last
        \* gf.read(100) of the text, or f.read(100).decode("utf-8",
        \* errors="ignore"), which drops the bytes that are not ASCII
        lines == IF _is_gzip_file(data) THEN GzipRead(data) ELSE [ok |-> TRUE, data |-> data]
        text == SelectSeq(lines.data, LAMBDA b : b < 128 \/ IsMacro(b))
    IN  IF FormatOfSuffix(suffix) # "txt" THEN FormatOfSuffix(suffix)
        ELSE IF ~lines.ok THEN "txt"
        ELSE SniffFormat(text, FirstChars(text, SNIFF_CHARS))

(***************************************************************************)
(* The filter of _collect_file_metadata.  A pattern is a sequence of the   *)
(* tokens of a path and of "*" and "**".  config holds the fields of the   *)
(* FileCombiner that decide: max_file_size, include_patterns and           *)
(* exclude_patterns as they are after _normalize_patterns, and             *)
(* _gitignore_spec: whether a specification was loaded, and the paths its  *)
(* match_file accepts.  The files of the model exist and are regular.      *)
(***************************************************************************)
\* fnmatch.fnmatch(name, pat): "*" stands for any characters
RECURSIVE Fnmatch(_, _)
Fnmatch(name, pat) ==
    IF pat = <<>> THEN name = <<>>
    ELSE IF Head(pat) = "*"
    THEN \E k \in 0..Len(name) : Fnmatch(SubSeq(name, k + 1, Len(name)), Tail(pat))
    ELSE name # <<>> /\ Head(name) = Head(pat) /\ Fnmatch(Tail(name), Tail(pat))

\* lines 457-473: re.match of the regular expression made of a pattern with
\* "**": "**/" is "(.*/)?", any other "**" is ".*", "*" is "[^/]*"
RECURSIVE GlobMatch(_, _)
GlobMatch(path, pat) ==
    IF pat = <<>> THEN path = <<>>
    ELSE IF Head(pat) = "**" /\ Len(pat) >= 2 /\ pat[2] = "/"
    THEN \E k \in 0..Len(path) :
            /\ k = 0 \/ path[k] = "/"
            /\ GlobMatch(SubSeq(path, k + 1, Len(path)), SubSeq(pat, 3, Len(pat)))
    ELSE IF Head(pat) = "**"
    THEN \E k \in 0..Len(path) : GlobMatch(SubSeq(path, k + 1, Len(path)), Tail(pat))
    ELSE IF Head(pat) = "*"
    THEN \E k \in 0..Len(path) :
            /\ \A i \in 1..k : path[i] # "/"
            /\ GlobMatch(SubSeq(path, k + 1, Len(path)), Tail(pat))
    ELSE path # <<>> /\ Head(path) = Head(pat) /\ GlobMatch(Tail(path), Tail(pat))

\* os.path.basename
Basename(path) ==
    LET at == SelectSeq(Indices(path), LAMBDA i : path[i] = "/")
    IN  IF at = <<>> THEN path ELSE SubSeq(path, at[Len(at)] + 1, Len(path))

\* _matches_pattern
_matches_pattern(path, patterns) ==
    \E i \in 1..Len(patterns) :
       LET pattern == patterns[i]
       IN  IF \E j \in 1..Len(pattern) : pattern[j] = "**"
           THEN GlobMatch(path, pattern)
           ELSE \/ Fnmatch(path, pattern)
                \/ Fnmatch(Basename(path), pattern)
                \/ HasPrefix(path, RStrip(pattern, {"/"}) \o <<"/">>)

\* _matches_gitignore
_matches_gitignore(relative_path, _gitignore_spec) ==
    _gitignore_spec.loaded /\ relative_path \in _gitignore_spec.ignored

Verdict(excluded, reason) == [excluded |-> excluded, reason |-> reason]

\* a filter that asks the include patterns before the exclude patterns
IncludeFirst(data, relative_path, cfg) ==
    IF SizeOf(data) > cfg.max_file_size THEN Verdict(TRUE, "too large")
    ELSE IF _matches_gitignore(relative_path, cfg._gitignore_spec)
    THEN Verdict(TRUE, "matches .gitignore pattern")
    ELSE IF cfg.include_patterns # <<>>
    THEN Verdict(~_matches_pattern(relative_path, cfg.include_patterns),
                 "doesn't match include pattern")
    ELSE Verdict(_matches_pattern(relative_path, cfg.exclude_patterns),
                 "matches exclude pattern")

\* _should_exclude for a file of these bytes
_should_exclude(data, relative_path, cfg) ==
    IF SizeOf(data) > cfg.max_file_size THEN Verdict(TRUE, "too large")
    ELSE IF _matches_gitignore(relative_path, cfg._gitignore_spec)
    THEN Verdict(TRUE, "matches .gitignore pattern")
    ELSE IF _matches_pattern(relative_path, cfg.exclude_patterns)
    THEN Verdict(TRUE, "matches exclude pattern")
    ELSE IF cfg.include_patterns # <<>>
            /\ ~_matches_pattern(relative_path, cfg.include_patterns)
    THEN Verdict(TRUE, "doesn't match include pattern")
    ELSE Verdict(FALSE, "")

\* the part of _default_excludes the model keeps: "*.log"
DefaultExcludes == << <<"*", ".", "log">> >>

\* 50M
DEFAULT_MAX_FILE_SIZE == 52428800

\* no encoder is at work: every source file can be read, no task exists
NoEncode ==
    /\ unreadable = {}
    /\ tasks = <<>>
    /\ issued = <<>>
    /\ write_log = <<>>
    /\ entry_index = 0
    /\ first_entry = TRUE
    /\ sink = <<>>

\* lines 822-827: stats as combine_files resets them
NoStats == [files_processed |-> 0, files_skipped |-> 0, bytes_processed |-> 0, errors |-> 0]

\* line 170: max_depth when the configuration gives none
DEFAULT_MAX_DEPTH == 50

\* no scan is under way
NoWalk ==
    /\ tree = <<>>
    /\ scan_stack = <<>>
    /\ visited_dirs = {}
    /\ all_files = <<>>
    /\ scan_log = <<>>

\* the pool has not started and every file can be collected
NoPool ==
    /\ NoWalk
    /\ stats = NoStats
    /\ completed = {}
    /\ running = <<>>
    /\ faults = <<>>

\* FileCombiner({"max_workers": 1}): no filter configured, a pool of one
\* thread, stats as combine_files resets them
NoScan ==
    /\ NoEncode
    /\ config = [max_file_size |-> DEFAULT_MAX_FILE_SIZE,
                 include_patterns |-> <<>>,
                 exclude_patterns |-> DefaultExcludes,
                 _gitignore_spec |-> [loaded |-> FALSE, ignored |-> {}],
                 max_workers |-> 1,
                 max_depth |-> DEFAULT_MAX_DEPTH,
                 follow_symlinks |-> FALSE]
    /\ NoPool

(***************************************************************************)
(* Temporary files.  _temp_files lists names; temp_disk holds the content  *)
(* of those that exist, all of them in the directory of the destination.   *)
(***************************************************************************)
\* list.remove(x): the first x leaves the list
RemoveFirst(list, x) ==
    LET at == SelectSeq(Indices(list), LAMBDA i : list[i] = x)
    IN  IF at = <<>> THEN list
        ELSE SubSeq(list, 1, at[1] - 1) \o SubSeq(list, at[1] + 1, Len(list))

\* os.unlink, Path.unlink
Unlink(disk, name) == [n \in (DOMAIN disk) \ {name} |-> disk[n]]

\* a cleanup that keeps the entries it finds no file for
CleanupExistingOnly(disk, temp_files) ==
    [disk |-> [n \in (DOMAIN disk) \ {temp_files[i] : i \in 1..Len(temp_files)} |->
                 disk[n]],
     temp_files |-> SelectSeq(temp_files, LAMBDA t : t \notin DOMAIN disk)]

\* _cleanup_temp_files: every listed file that exists is removed, and every
\* entry leaves the list
_cleanup_temp_files(disk, temp_files) ==
    [disk |-> [n \in (DOMAIN disk) \ {temp_files[i] : i \in 1..Len(temp_files)} |->
                 disk[n]],
     temp_files |-> <<>>]

(***************************************************************************)
(* The sanitizer on its own: any path, then one call.                      *)
(***************************************************************************)
NotYet == [outcome |-> "none", reason |-> "", path |-> NoPath]

\* the suffix an archive of a format is given
SuffixOfFormat(format_type) ==
    CASE format_type = "json" -> ".json"
      [] format_type = "xml" -> ".xml"
      [] format_type = "yaml" -> ".yaml"
      [] format_type = "markdown" -> ".md"
      [] OTHER -> ".txt"

\* the source is a directory, the archive a file named after its format
NamedByFormat ==
    /\ source_kind = "dir"
    /\ input_kind = "file"
    /\ input_suffixes = <<SuffixOfFormat(format)>>
    /\ detected_format = "none"

\* no temporary file on disk or on the list
NoTemp == temp_disk = <<>> /\ _temp_files = <<>>

\* no file operation is under way
NoFiles ==
    /\ source_files = <<>>
    /\ file_entries = <<>>
    /\ format = "txt"
    /\ archive = <<>>
    /\ parsed = <<>>
    /\ files_list = <<>>
    /\ out_files = <<>>
    /\ out_dirs = {}
    /\ files_restored = 0
    /\ result = "none"
    /\ exit_status = <<>>
    /\ progress = TRUE
    /\ stream_error = "none"
    /\ restore_log = <<>>
    /\ NoTemp
    /\ NoScan
    /\ NamedByFormat

InitSanitize ==
    /\ NoFiles
    /\ pc = "sanitize"
    /\ unsafe_relative_path \in SeqsUpTo(PathTokens, MaxPathLen)
    /\ sanitized = NotYet
    /\ fence_content = <<>>
    /\ fence = <<>>

SanitizePath ==
    /\ pc = "sanitize"
    /\ sanitized' = _sanitize_path(OutputRoot, unsafe_relative_path)
    /\ pc' = "sanitize_done"
    /\ UNCHANGED <<unsafe_relative_path, fenceVars, fileVars>>

NextSanitize == SanitizePath

SpecSanitize == InitSanitize /\ [][NextSanitize]_vars

(***************************************************************************)
(* The fence computation on its own.                                       *)
(***************************************************************************)
InitFence ==
    /\ NoFiles
    /\ pc = "fence"
    /\ fence_content \in SeqsUpTo(FenceChars, MaxFenceLen)
    /\ fence = <<>>
    /\ unsafe_relative_path = <<>>
    /\ sanitized = NotYet

GetSafeFence ==
    /\ pc = "fence"
    /\ fence' = _get_safe_fence(fence_content, BaseFence)
    /\ pc' = "fence_done"
    /\ UNCHANGED <<fence_content, sanVars, fileVars>>

NextFence == GetSafeFence

SpecFence == InitFence /\ [][NextFence]_vars

(***************************************************************************)
(* split_files on a hostile archive.  The archive names up to MaxEntries   *)
(* files; each names one of the paths of HostilePaths and is text or       *)
(* base64.  The archive is its text and goes through the parser of its     *)
(* format; of an XML or YAML archive the text names the entries and parsed *)
(* holds them.  Outside the output directory there is one file, Victim,    *)
(* which two of the hostile paths lead to.                                 *)
(***************************************************************************)
MaxEntries == 3

Formats == {"txt", "json", "xml", "yaml", "markdown"}

HostilePaths == {PathTable[i] : i \in {1, 2, 4, 5, 6}}

Victim == LinkTarget \o << <<"a">> >>
VictimData == <<1>>

TextEntry(path) ==
    [path |-> path, is_binary |-> FALSE, encoding |-> "utf-8",
     ends_with_newline |-> TRUE, content |-> <<120, LF>>,
     content_lines |-> << <<120>> >>]

Base64Entry(path) ==
    [path |-> path, is_binary |-> TRUE, encoding |-> "base64",
     ends_with_newline |-> FALSE, content |-> B64Encode(<<0>>),
     content_lines |-> <<B64Encode(<<0>>)>>]

HostileEntries ==
    {TextEntry(p) : p \in HostilePaths} \cup {Base64Entry(p) : p \in HostilePaths}

EntryMetadata(e) ==
    [path |-> e.path, encoding |-> e.encoding, is_binary |-> e.is_binary,
     ends_with_newline |-> e.ends_with_newline, size |-> Len(e.content)]

TxtArchive(entries) ==
    TxtHeader
    \o Flatten([i \in 1..Len(entries) |->
                  TxtEntry(EntryMetadata(entries[i]), entries[i].content)])

JsonArchive(entries) ==
    _write_json_streaming([i \in 1..Len(entries) |->
                             [metadata |-> EntryMetadata(entries[i]),
                              content |-> Utf8Encode(entries[i].content)]])

InitSplit ==
    /\ pc = "split"
    /\ exit_status = <<>>
    /\ progress = TRUE
    /\ stream_error = "none"
    /\ unsafe_relative_path = <<>>
    /\ sanitized = NotYet
    /\ fence_content = <<>>
    /\ fence = <<>>
    /\ source_files = <<>>
    /\ file_entries = <<>>
    /\ \E format_type \in Formats, entries \in SeqsUpTo(HostileEntries, MaxEntries) :
          /\ format = format_type
          /\ LET reads == [i \in 1..Len(entries) |->
                              [metadata |-> EntryMetadata(entries[i]),
                               content |-> Utf8Encode(entries[i].content)]]
                 text == _write_format_streaming(reads, format_type)
             IN  archive = Utf8Encode(text)
          /\ parsed = entries
    /\ files_list = <<>>
    /\ out_files = [p \in {Victim} |-> VictimData]
    /\ out_dirs = {<<>>, OutputRoot, LinkTarget}
    /\ files_restored = 0
    /\ result = "none"
    /\ restore_log = <<>>
    /\ NoTemp
    /\ NoScan
    /\ NamedByFormat

\* what a parser reads from the file split_files opened, through gzip.open
\* when the input counts as compressed: UTF-8 text with universal newlines
ReadText(data, is_compressed) ==
    LET raw == IF is_compressed THEN GzipRead(data)
               ELSE [ok |-> TRUE, raised |-> "none", data |-> data]
        text == Utf8Decode(raw.data)
    IN  IF ~raw.ok THEN [ok |-> FALSE, raised |-> raw.raised, text |-> <<>>]
        ELSE IF ~text.ok THEN [ok |-> FALSE, raised |-> "UnicodeDecodeError", text |-> <<>>]
        ELSE [ok |-> TRUE, raised |-> "none", text |-> UniversalNewlines(text.text)]

Calls(files_to_restore) == [raised |-> "none", calls |-> files_to_restore]

\* lines 1953-1963: the parser of the detected format up to its restore loop:
\* the restore calls it will make, or the exception that leaves it.  The
\* YAML and markdown parsers catch every exception and return 0; the JSON
\* and XML parsers catch the error of their own decoder only.
ParseArchive(detected, read, entries) ==
    CASE detected = "json" ->
           IF ~read.ok THEN [raised |-> read.raised, calls |-> <<>>]
           ELSE LET files == JsonLoadsArchive(read.text).files
                IN  Calls([i \in 1..Len(files) |-> JsonFileCall(files[i])])
      [] detected = "xml" ->
           IF ~read.ok THEN [raised |-> read.raised, calls |-> <<>>]
           ELSE LET files == XmlFromString(read.text, entries).files
                IN  Calls([i \in 1..Len(files) |-> XmlFileCall(files[i])])
      [] detected = "yaml" ->
           IF ~read.ok THEN Calls(<<>>)
           ELSE LET files == YamlItems(read.text)
                IN  Calls([i \in 1..Len(files) |-> YamlFileCall(files[i])])
      [] detected = "markdown" ->
           IF ~read.ok THEN Calls(<<>>)
           ELSE LET files == _parse_markdown_archive(read.text)
                IN  Calls([i \in 1..Len(files) |-> MarkdownFileCall(files[i])])
      [] OTHER ->
           IF ~read.ok THEN [raised |-> read.raised, calls |-> <<>>]
           ELSE Calls(_parse_and_restore_files(read.text))

\* a split_files that gives up when the compressed read fails
OpenWithoutRetry(detected, data, is_compressed, entries) ==
    ParseArchive(detected, ReadText(data, is_compressed), entries)

\* lines 1949-1993: the file is opened and parsed; when that raises
\* BadGzipFile or OSError and the input counted as compressed, it is opened
\* again as plain text
OpenAndParse(detected, data, is_compressed, entries) ==
    LET first == ParseArchive(detected, ReadText(data, is_compressed), entries)
    IN  IF first.raised \in {"BadGzipFile", "OSError"} /\ is_compressed
        THEN ParseArchive(detected, ReadText(data, FALSE), entries)
        ELSE first

\* an input check that asks only whether the path exists
InputExists(kind) == kind # "missing"

\* lines 1923-1927: the input exists and is a file
InputValid(kind) == kind = "file"

\* split_files up to the parser's first restore call: the checks of the
\* input, the output directory, the format, and the archive opened and
\* handed to the parser of the detected format.  An error raised on the way
\* is caught and makes the result False.
SplitOpen ==
    /\ pc = "split"
    /\ IF ~InputValid(input_kind)
       THEN /\ result' = FALSE
            /\ pc' = "split_done"
            /\ UNCHANGED <<files_list, out_dirs, detected_format>>
       ELSE LET is_compressed ==
                    (input_suffixes # <<>> /\ input_suffixes[Len(input_suffixes)] = ".gz")
                    \/ _is_gzip_file(archive)
                detected == _detect_input_format(input_suffixes, archive)
                opened == OpenAndParse(detected, archive, is_compressed, parsed)
            IN  /\ out_dirs' = out_dirs \cup ParentDirs(OutputRoot) \cup {OutputRoot}
                /\ detected_format' = detected
                /\ IF opened.raised = "none"
                   THEN /\ files_list' = opened.calls
                        /\ pc' = "restoring"
                        /\ UNCHANGED result
                   ELSE /\ result' = FALSE
                        /\ pc' = "split_done"
                        /\ UNCHANGED files_list
    /\ UNCHANGED <<sanVars, walkVars, inputVars, encodeVars, scanVars, fenceVars, combineVars, archiveVars, out_files,
                   files_restored, restore_log>>

\* a loop that gives up at the first entry that cannot be restored
RestoreEntryAbort ==
    /\ pc = "restoring"
    /\ files_list # <<>>
    /\ LET call == Head(files_list)
           r == _restore_file(OutputRoot, out_files, out_dirs, call.metadata,
                              call.encoding, call.content_lines)
       IN  /\ out_files' = r.files
           /\ out_dirs' = r.dirs
           /\ files_restored' = IF r.raised = "none" THEN files_restored + 1
                                ELSE files_restored
           /\ restore_log' = Append(restore_log,
                                    [path |-> call.metadata.path, raised |-> r.raised,
                                     wrote |-> r.wrote])
           /\ files_list' = IF r.raised = "none" THEN Tail(files_list) ELSE <<>>
    /\ UNCHANGED <<pc, sanVars, walkVars, inputVars, encodeVars, scanVars, detected_format, fenceVars, combineVars, archiveVars, result>>

\* one turn of the parser's loop: _restore_file for the next entry; an
\* exception it raises is logged and the loop goes on
RestoreEntry ==
    /\ pc = "restoring"
    /\ files_list # <<>>
    /\ LET call == Head(files_list)
           r == _restore_file(OutputRoot, out_files, out_dirs, call.metadata,
                              call.encoding, call.content_lines)
       IN  /\ out_files' = r.files
           /\ out_dirs' = r.dirs
           /\ files_restored' = IF r.raised = "none" THEN files_restored + 1
                                ELSE files_restored
           /\ restore_log' = Append(restore_log,
                                    [path |-> call.metadata.path, raised |-> r.raised,
                                     wrote |-> r.wrote])
    /\ files_list' = Tail(files_list)
    /\ UNCHANGED <<pc, sanVars, walkVars, inputVars, encodeVars, scanVars, detected_format, fenceVars, combineVars, archiveVars, result>>

\* the parser returns its count and split_files returns True
SplitReturn ==
    /\ pc = "restoring"
    /\ files_list = <<>>
    /\ result' = TRUE
    /\ pc' = "split_done"
    /\ UNCHANGED <<sanVars, walkVars, inputVars, encodeVars, scanVars, detected_format, fenceVars, combineVars, archiveVars, splitVars>>

NextSplit == SplitOpen \/ RestoreEntry \/ SplitReturn

SpecSplit == InitSplit /\ [][NextSplit]_vars

(***************************************************************************)
(* combine_files on a source directory, then split_files on the archive    *)
(* into a fresh output directory.  The directory holds one file, a.txt or  *)
(* a.bin, of any content of up to MaxContentLen symbols, and with it or    *)
(* not the file aa.txt, which sorts after it.                               *)
(***************************************************************************)
MaxContentLen == 3

RawBytes == {120, LF, CR, 233, 0}
TextSymbols == RawBytes \cup {SEPARATOR, METADATA_PREFIX, ENCODING_PREFIX}

CompanionData == <<120, LF>>

RoundTripFormats == {"txt", "json"}

InitRoundTrip ==
    /\ pc = "combine"
    /\ exit_status = <<>>
    /\ progress = TRUE
    /\ stream_error = "none"
    /\ unsafe_relative_path = <<>>
    /\ sanitized = NotYet
    /\ fence_content = <<>>
    /\ fence = <<>>
    /\ \E name \in {TextName, DataName}, companion \in BOOLEAN :
          \E data \in SeqsUpTo(IF name = TextName THEN TextSymbols ELSE RawBytes,
                               MaxContentLen) :
             source_files =
                 [n \in {name} \cup (IF companion THEN {OtherTextName} ELSE {}) |->
                    IF n = name THEN data ELSE CompanionData]
    /\ file_entries = <<>>
    /\ format \in RoundTripFormats
    /\ archive = <<>>
    /\ parsed = <<>>
    /\ files_list = <<>>
    /\ out_files = <<>>
    /\ out_dirs = {<<>>, OutputRoot, LinkTarget}
    /\ files_restored = 0
    /\ result = "none"
    /\ restore_log = <<>>
    /\ NoTemp
    /\ NoScan
    /\ NamedByFormat

\* lines 803-809: the source exists and is a directory
SourceValid(kind) == kind = "dir"

\* the sum of metadata.size over the entries
RECURSIVE SumSizes(_)
SumSizes(entries) ==
    IF entries = <<>> THEN 0 ELSE Head(entries).size + SumSizes(Tail(entries))

\* combine_files, phase 1: the checks of the source, scan, collect the
\* metadata of the files the filter keeps, sort by path; with a source that
\* is no directory (the error raised is caught), with no file or with no
\* file kept it returns False through its finally clause
CombineCollect ==
    /\ pc = "combine"
    /\ config.max_workers = 1
    /\ UNCHANGED <<running, faults>>
    /\ IF ~SourceValid(source_kind) \/ DOMAIN source_files = {}
       THEN /\ result' = FALSE
            /\ pc' = "combine_done"
            /\ temp_disk' = _cleanup_temp_files(temp_disk, _temp_files).disk
            /\ _temp_files' = _cleanup_temp_files(temp_disk, _temp_files).temp_files
            /\ UNCHANGED file_entries
            /\ UNCHANGED <<stats, completed>>
       ELSE LET kept == {n \in DOMAIN source_files :
                           ~_should_exclude(source_files[n], n, config).excluded}
            IN  /\ stats' = [files_processed |-> Cardinality(kept),
                             files_skipped |-> Cardinality(DOMAIN source_files \ kept),
                             bytes_processed |->
                                 SumSizes(SortByPath({FileMetadataOf(n, source_files[n]) :
                                                        n \in kept})),
                             errors |-> 0]
                /\ completed' = DOMAIN source_files
                /\ IF kept = {}
                   THEN /\ result' = FALSE
                        /\ pc' = "combine_done"
                        /\ temp_disk' = _cleanup_temp_files(temp_disk, _temp_files).disk
                        /\ _temp_files' =
                              _cleanup_temp_files(temp_disk, _temp_files).temp_files
                        /\ UNCHANGED file_entries
                   ELSE /\ file_entries' =
                              SortByPath({FileMetadataOf(n, source_files[n]) : n \in kept})
                        /\ pc' = "write"
                        /\ UNCHANGED <<result, tempVars>>
    /\ UNCHANGED <<sanVars, walkVars, inputVars, encodeVars, detected_format, fenceVars, source_files, archiveVars, splitVars>>

\* combine_files, phase 2: each file is read, which settles its metadata, and
\* written in the format of the archive
CombineWriteAs(compress) ==
    /\ pc = "write"
    /\ LET reads == [i \in 1..Len(file_entries) |->
                       _read_file_content(file_entries[i],
                                          source_files[file_entries[i].path])]
           data == Utf8Encode(_write_format_streaming(reads, format))
       IN  /\ file_entries' = [i \in 1..Len(file_entries) |-> reads[i].metadata]
           /\ archive' = IF compress THEN GzipCompress(data) ELSE data
           /\ parsed' = IF format \in {"xml", "yaml"}
                        THEN _write_with_prefetch(reads)
                        ELSE parsed
    /\ result' = TRUE
    /\ pc' = "split"
    /\ UNCHANGED <<sanVars, walkVars, inputVars, encodeVars, scanVars, detected_format, fenceVars, source_files, tempVars, format, splitVars>>

\* compress is False unless the caller asks for it
CombineWrite == CombineWriteAs(FALSE)

NextRoundTrip == CombineCollect \/ CombineWrite \/ SplitOpen \/ RestoreEntry \/ SplitReturn

SpecRoundTrip == InitRoundTrip /\ [][NextRoundTrip]_vars

(***************************************************************************)
(* combine_files into a markdown archive, then split_files on it.  The     *)
(* directory holds a.txt, of any content of up to MaxMdLen characters out  *)
(* of backtick, "x", line feed, "#" and space, and with it or not aa.txt,  *)
(* whose one line is a run of three backticks.                             *)
(***************************************************************************)
MaxMdLen == 4

MdBytes == {BACKTICK, 120, LF, HASH, SPACE}

MdCompanionData == <<BACKTICK, BACKTICK, BACKTICK, LF>>

InitMarkdown ==
    /\ pc = "combine"
    /\ exit_status = <<>>
    /\ progress = TRUE
    /\ stream_error = "none"
    /\ unsafe_relative_path = <<>>
    /\ sanitized = NotYet
    /\ fence_content = <<>>
    /\ fence = <<>>
    /\ \E companion \in BOOLEAN :
          \E data \in SeqsUpTo(MdBytes, MaxMdLen) :
             source_files =
                 [n \in {TextName} \cup (IF companion THEN {OtherTextName} ELSE {}) |->
                    IF n = TextName THEN data ELSE MdCompanionData]
    /\ file_entries = <<>>
    /\ format = "markdown"
    /\ archive = <<>>
    /\ parsed = <<>>
    /\ files_list = <<>>
    /\ out_files = <<>>
    /\ out_dirs = {<<>>, OutputRoot, LinkTarget}
    /\ files_restored = 0
    /\ result = "none"
    /\ restore_log = <<>>
    /\ NoTemp
    /\ NoScan
    /\ NamedByFormat

SpecMarkdown == InitMarkdown /\ [][NextRoundTrip]_vars

(***************************************************************************)
(* The same with a.txt made of up to two lines, each of them "x", a line   *)
(* that reads like the metadata of a markdown entry ("**Binary:** Yes",    *)
(* "**Binary:** No", "**Encoding:** latin1", "**Encoding:** base64") or    *)
(* empty, with or without a line feed at its end, and with it or not the   *)
(* binary file a.bin.                                                      *)
(***************************************************************************)
MdMetaLines ==
    {<<120>>, <<>>,
     <<MD_BINARY, SPACE, MD_YES>>, <<MD_BINARY, SPACE, MD_NO>>,
     <<MD_ENCODING, SPACE, EncSym("latin1")>>, <<MD_ENCODING, SPACE, EncSym("base64")>>}

MdMetaTexts ==
    {JoinLines(lines) \o tail : lines \in SeqsUpTo(MdMetaLines, 2), tail \in {<<>>, <<LF>>}}

InitMdMeta ==
    /\ pc = "combine"
    /\ exit_status = <<>>
    /\ progress = TRUE
    /\ stream_error = "none"
    /\ unsafe_relative_path = <<>>
    /\ sanitized = NotYet
    /\ fence_content = <<>>
    /\ fence = <<>>
    /\ \E companion \in BOOLEAN, data \in MdMetaTexts :
          source_files =
              [n \in {TextName} \cup (IF companion THEN {DataName} ELSE {}) |->
                 IF n = TextName THEN data ELSE <<0>>]
    /\ file_entries = <<>>
    /\ format = "markdown"
    /\ archive = <<>>
    /\ parsed = <<>>
    /\ files_list = <<>>
    /\ out_files = <<>>
    /\ out_dirs = {<<>>, OutputRoot, LinkTarget}
    /\ files_restored = 0
    /\ result = "none"
    /\ restore_log = <<>>
    /\ NoTemp
    /\ NoScan
    /\ NamedByFormat

SpecMdMeta == InitMdMeta /\ [][NextRoundTrip]_vars

(***************************************************************************)
(* combine_files followed by split_files in the YAML and the markdown      *)
(* format: a.txt holds up to MaxNewlineLen symbols, each the letter x or a *)
(* line feed, and b.txt, when it is there, the line "x".                   *)
(***************************************************************************)
MaxNewlineLen == 3

InitNewline ==
    /\ pc = "combine"
    /\ exit_status = <<>>
    /\ progress = TRUE
    /\ stream_error = "none"
    /\ unsafe_relative_path = <<>>
    /\ sanitized = NotYet
    /\ fence_content = <<>>
    /\ fence = <<>>
    /\ \E companion \in BOOLEAN, data \in SeqsUpTo({120, LF}, MaxNewlineLen) :
          source_files =
              [n \in {TextName} \cup (IF companion THEN {OtherTextName} ELSE {}) |->
                 IF n = TextName THEN data ELSE <<120, LF>>]
    /\ file_entries = <<>>
    /\ format \in {"yaml", "markdown"}
    /\ archive = <<>>
    /\ parsed = <<>>
    /\ files_list = <<>>
    /\ out_files = <<>>
    /\ out_dirs = {<<>>, OutputRoot, LinkTarget}
    /\ files_restored = 0
    /\ result = "none"
    /\ restore_log = <<>>
    /\ NoTemp
    /\ NoScan
    /\ NamedByFormat

SpecNewline == InitNewline /\ [][NextRoundTrip]_vars

(***************************************************************************)
(* split_files on a YAML archive that was not written by combine_files:    *)
(* up to MaxShapeEntries list items, each naming a.txt or b.txt with the   *)
(* content "x", whose "size:" and "mtime:" values are a number or the      *)
(* letter x.  parsed holds the items the text was made from.               *)
(***************************************************************************)
MaxShapeEntries == 2

ShapeEntries ==
    [path : {TextName, OtherTextName},
     size_text : {<<CountBase + 1>>, <<120>>},
     mtime_text : {<<YAML_FLOAT>>, <<CountBase + 1>>, <<120>>}]

\* the lines of a list item in the layout of write_yaml_entry
YamlItemText(e) ==
    <<YAML_PATH, SPACE, APOSTROPHE, PathSym(e.path), APOSTROPHE, LF>>
    \o <<YAML_SIZE, SPACE>> \o e.size_text \o <<LF>>
    \o <<YAML_MTIME, SPACE>> \o e.mtime_text \o <<LF>>
    \o <<YAML_ENC, SPACE, APOSTROPHE, EncSym("utf-8"), APOSTROPHE, LF>>
    \o <<YAML_IS_BINARY, SPACE, YAML_FALSE, LF>>
    \o <<YAML_CONTENT, LF>>
    \o YamlIndent \o <<120, LF>>
    \o <<LF>>

InitYamlShape ==
    /\ pc = "split"
    /\ exit_status = <<>>
    /\ progress = TRUE
    /\ stream_error = "none"
    /\ unsafe_relative_path = <<>>
    /\ sanitized = NotYet
    /\ fence_content = <<>>
    /\ fence = <<>>
    /\ source_files = <<>>
    /\ file_entries = <<>>
    /\ format = "yaml"
    /\ \E entries \in SeqsUpTo(ShapeEntries, MaxShapeEntries) :
          /\ archive = Utf8Encode(_write_yaml_streaming(<<>>)
                                  \o Flatten([i \in 1..Len(entries) |->
                                                YamlItemText(entries[i])]))
          /\ parsed = entries
    /\ files_list = <<>>
    /\ out_files = <<>>
    /\ out_dirs = {<<>>, OutputRoot, LinkTarget}
    /\ files_restored = 0
    /\ result = "none"
    /\ restore_log = <<>>
    /\ NoTemp
    /\ NoScan
    /\ NamedByFormat

SpecYamlShape == InitYamlShape /\ [][NextSplit]_vars

(***************************************************************************)
(* split_files on an archive of three entries: a.txt, aa.txt and, before,  *)
(* between or after them, the binary entry a.bin, whose payload is one of  *)
(* Base64Payloads: the encoding of a byte, payloads cut short, payloads    *)
(* with a character outside the alphabet, and one that is not ASCII.       *)
(***************************************************************************)
Base64Payloads ==
    { B64Encode(<<65>>),
      <<81>>, <<81, 81>>, <<81, 81, PAD>>,
      <<81, 33, 81, PAD, PAD>>, <<81, 81, PAD, PAD, 33>>, <<33, 33, 33, 33>>,
      <<233, 81, 81, PAD, PAD>> }

PayloadEntry(payload) ==
    [path |-> DataName, is_binary |-> TRUE, encoding |-> "base64",
     ends_with_newline |-> FALSE, content |-> payload, content_lines |-> <<payload>>]

InitBase64 ==
    /\ pc = "split"
    /\ exit_status = <<>>
    /\ progress = TRUE
    /\ stream_error = "none"
    /\ unsafe_relative_path = <<>>
    /\ sanitized = NotYet
    /\ fence_content = <<>>
    /\ fence = <<>>
    /\ source_files = <<>>
    /\ file_entries = <<>>
    /\ \E format_type \in Formats, payload \in Base64Payloads, k \in 0..2 :
          LET texts == <<TextEntry(TextName), TextEntry(OtherTextName)>>
              entries == SubSeq(texts, 1, k) \o <<PayloadEntry(payload)>>
                         \o SubSeq(texts, k + 1, 2)
              reads == [i \in 1..Len(entries) |->
                          [metadata |-> EntryMetadata(entries[i]),
                           content |-> Utf8Encode(entries[i].content)]]
          IN  /\ format = format_type
              /\ archive = Utf8Encode(_write_format_streaming(reads, format_type))
              /\ parsed = entries
    /\ files_list = <<>>
    /\ out_files = <<>>
    /\ out_dirs = {<<>>, OutputRoot, LinkTarget}
    /\ files_restored = 0
    /\ result = "none"
    /\ restore_log = <<>>
    /\ NoTemp
    /\ NoScan
    /\ NamedByFormat

SpecBase64 == InitBase64 /\ [][NextSplit]_vars

(***************************************************************************)
(* split_files on a txt archive, with and without the progress flag.  The  *)
(* txt parser reads the stream line by line: with progress it first counts *)
(* the metadata lines and seeks back, then the main loop restores an entry *)
(* at each separator and the last one after the loop.  A stream opened by  *)
(* gzip.open hands out the lines it could decompress and raises when it    *)
(* meets the damaged end of the member.                                    *)
(***************************************************************************)
\* the stream split_files opens: the lines it hands out, the exception the
\* iteration raises after them, and the one it raises when read again
StreamOf(data, is_compressed) ==
    LET plain == Utf8Decode(data)
        body == Utf8Decode(SubSeq(data, 3, Len(data) - 1))
        open_end == Utf8Decode(SubSeq(data, 3, Len(data)))
        Stream(text, raised, again) ==
            [lines |-> FileLines(UniversalNewlines(text)), raised |-> raised,
             raised_again |-> again]
    IN  IF ~is_compressed
        THEN IF plain.ok THEN Stream(plain.text, "none", "none")
             ELSE Stream(<<>>, "UnicodeDecodeError", "UnicodeDecodeError")
        ELSE IF ~HasPrefix(data, GzipMagic)
        THEN Stream(<<>>, "BadGzipFile", "BadGzipFile")
        ELSE IF data[Len(data)] = GZ_TRAILER
        THEN IF body.ok THEN Stream(body.text, "none", "none")
             ELSE Stream(<<>>, "UnicodeDecodeError", "UnicodeDecodeError")
        ELSE IF data[Len(data)] = GZ_BAD_TRAILER
        THEN Stream(body.text, "BadGzipFile", "EOFError")
        ELSE Stream(open_end.text, "EOFError", "EOFError")

\* the lines up to the last separator: the part of a stream whose entries
\* the main loop has restored when the stream raises after its last line
UpToLastSeparator(lines) ==
    LET seps == SelectSeq(Indices(lines),
                          LAMBDA i : RStrip(lines[i], {LF, CR}) = <<SEPARATOR>>)
    IN  IF seps = <<>> THEN <<>> ELSE SubSeq(lines, 1, seps[Len(seps)])

\* lines 2019-2143 on a stream: the restore calls made and the exception
\* that leaves the parser.  The pre-scan catches OSError and goes on to the
\* main loop, which reads the stream again; any other exception leaves the
\* parser from the pre-scan, before any entry is restored.
TxtStreamCalls(stream, with_progress) ==
    IF stream.raised = "none"
    THEN Calls(TxtParse(stream.lines, NoMetadata, "None", <<>>, FALSE))
    ELSE IF with_progress
    THEN [raised |-> IF stream.raised \in {"BadGzipFile", "OSError"}
                     THEN stream.raised_again ELSE stream.raised,
          calls |-> <<>>]
    ELSE [raised |-> stream.raised,
          calls |-> TxtParse(UpToLastSeparator(stream.lines), NoMetadata, "None",
                             <<>>, FALSE)]

\* lines 1949-1993 for the txt parser: the stream is opened and parsed, and
\* opened again as plain text when that raises BadGzipFile or OSError and
\* the input counted as compressed
OpenTxtStream(data, is_compressed, with_progress) ==
    LET first == TxtStreamCalls(StreamOf(data, is_compressed), with_progress)
        second == TxtStreamCalls(StreamOf(data, FALSE), with_progress)
    IN  IF first.raised \in {"BadGzipFile", "OSError"} /\ is_compressed
        THEN [raised |-> second.raised, calls |-> first.calls \o second.calls]
        ELSE first

\* lines 1930-1933: the input counts as compressed
IsCompressed(suffixes, data) ==
    (suffixes # <<>> /\ suffixes[Len(suffixes)] = ".gz") \/ _is_gzip_file(data)

\* the files and directories after the restore calls, made in order
RECURSIVE RestoreAll(_, _, _)
RestoreAll(calls, files, dirs) ==
    IF calls = <<>> THEN [files |-> files, dirs |-> dirs]
    ELSE LET call == Head(calls)
             r == _restore_file(OutputRoot, files, dirs, call.metadata, call.encoding,
                                call.content_lines)
         IN  RestoreAll(Tail(calls), r.files, r.dirs)

ProgressEntries == {TextEntry(TextName), TextEntry(OtherTextName)}

\* a txt archive as it is on disk: plain, compressed, compressed and cut
\* inside its trailer, compressed with a wrong check sum
StoredAs(data) ==
    {data, GzipCompress(data), GzipMagic \o data, GzipMagic \o data \o <<GZ_BAD_TRAILER>>}

InitProgress ==
    /\ pc = "split"
    /\ exit_status = <<>>
    /\ progress \in BOOLEAN
    /\ stream_error = "none"
    /\ unsafe_relative_path = <<>>
    /\ sanitized = NotYet
    /\ fence_content = <<>>
    /\ fence = <<>>
    /\ source_files = <<>>
    /\ file_entries = <<>>
    /\ format = "txt"
    /\ \E entries \in SeqsUpTo(ProgressEntries, MaxEntries) :
          /\ archive \in StoredAs(Utf8Encode(TxtArchive(entries)))
          /\ parsed = entries
    /\ files_list = <<>>
    /\ out_files = <<>>
    /\ out_dirs = {<<>>, OutputRoot, LinkTarget}
    /\ files_restored = 0
    /\ result = "none"
    /\ restore_log = <<>>
    /\ NoTemp
    /\ NoScan
    /\ source_kind = "dir"
    /\ input_kind = "file"
    /\ input_suffixes \in {<<".txt">>, <<".txt", ".gz">>}
    /\ detected_format = "none"

\* split_files up to the parser's first restore call, the stream read line
\* by line
ProgressOpen ==
    /\ pc = "split"
    /\ LET detected == _detect_input_format(input_suffixes, archive)
           opened == OpenTxtStream(archive, IsCompressed(input_suffixes, archive),
                                   progress)
       IN  /\ detected = "txt"
           /\ out_dirs' = out_dirs \cup ParentDirs(OutputRoot) \cup {OutputRoot}
           /\ detected_format' = detected
           /\ files_list' = opened.calls
           /\ stream_error' = opened.raised
           /\ pc' = "restoring"
    /\ UNCHANGED <<sanVars, walkVars, source_kind, input_kind, input_suffixes, config,
                   exit_status, progress, encodeVars, scanVars, fenceVars, combineVars,
                   archiveVars, out_files, files_restored, restore_log, result>>

\* the parser returns and split_files returns True, or the exception of the
\* stream leaves the parser and split_files returns False
ProgressReturn ==
    /\ pc = "restoring"
    /\ files_list = <<>>
    /\ result' = (stream_error = "none")
    /\ pc' = "split_done"
    /\ UNCHANGED <<sanVars, walkVars, inputVars, encodeVars, scanVars, detected_format,
                   fenceVars, combineVars, archiveVars, splitVars>>

NextProgress == ProgressOpen \/ RestoreEntry \/ ProgressReturn

SpecProgress == InitProgress /\ [][NextProgress]_vars

(***************************************************************************)
(* combine_files with the worker pool in view.  The directory holds any of *)
(* four files; the pool finishes _collect_file_metadata for them in any    *)
(* order and each result joins file_entries as it comes; the list is then  *)
(* sorted and the archive written, in any of the five formats.             *)
(***************************************************************************)
SourceNames == {TextName, OtherTextName, DataName, SubdirName}

\* the threads of the pool, self.max_workers
MaxWorkers == 2

SourceData(name) == IF name = DataName THEN <<0>> ELSE <<120, LF>>

InitOrder ==
    /\ pc = "collect"
    /\ exit_status = <<>>
    /\ progress = TRUE
    /\ stream_error = "none"
    /\ unsafe_relative_path = <<>>
    /\ sanitized = NotYet
    /\ fence_content = <<>>
    /\ fence = <<>>
    /\ \E names \in SUBSET SourceNames : source_files = [n \in names |-> SourceData(n)]
    /\ file_entries = <<>>
    /\ format \in Formats
    /\ archive = <<>>
    /\ parsed = <<>>
    /\ files_list = <<>>
    /\ out_files = <<>>
    /\ out_dirs = {<<>>, OutputRoot, LinkTarget}
    /\ files_restored = 0
    /\ result = "none"
    /\ restore_log = <<>>
    /\ NoTemp
    /\ NoEncode
    /\ config = [max_file_size |-> DEFAULT_MAX_FILE_SIZE,
                 include_patterns |-> <<>>,
                 exclude_patterns |-> DefaultExcludes,
                 _gitignore_spec |-> [loaded |-> FALSE, ignored |-> {}],
                 max_workers |-> MaxWorkers,
                 max_depth |-> DEFAULT_MAX_DEPTH,
                 follow_symlinks |-> FALSE]
    /\ NoPool
    /\ NamedByFormat

\* the files whose future has not come out of as_completed yet
Pending == DOMAIN source_files \ completed

\* the files submitted to the pool that no thread has taken yet
Queued == DOMAIN source_files \ (completed \cup DOMAIN running)

\* the files a thread of the pool is working on
Busy == {n \in DOMAIN running : running[n].at # "done"}

\* _collect_file_metadata up to its first counter: the counter it goes on to
\* increment.  A file that cannot be accessed is excluded by _should_exclude
\* (lines 576-606), one whose stat() fails after the filter raises into the
\* handler of lines 1154-1157.
CollectOutcome(n) ==
    IF n \in DOMAIN faults /\ faults[n] = "access" THEN "files_skipped"
    ELSE IF _should_exclude(source_files[n], n, config).excluded THEN "files_skipped"
    ELSE IF n \in DOMAIN faults THEN "errors"
    ELSE "files_processed"

\* what the += of this counter adds, lines 1122, 1144, 1145 and 1156
Increment(n, counter) ==
    IF counter = "bytes_processed" THEN SizeOf(source_files[n]) ELSE 1

\* a thread of the pool takes a file and runs _collect_file_metadata up to
\* the read of self.stats[...] in its first +=
WorkerStart ==
    /\ pc = "collect"
    /\ Cardinality(Busy) < config.max_workers
    /\ \E n \in Queued :
          running' = running @@ (n :> [at |-> "store",
                                       counter |-> CollectOutcome(n),
                                       local |-> stats[CollectOutcome(n)]])
    /\ UNCHANGED <<pc, sanVars, walkVars, inputVars, encodeVars, detected_format, fenceVars,
                   combineVars, archiveVars, splitVars, result, stats, completed, faults>>

\* the write that ends a +=: the value read, plus the increment.  After
\* files_processed comes bytes_processed; after any other the function
\* returns and the future is done.
WorkerStore ==
    /\ pc = "collect"
    /\ \E n \in DOMAIN running :
          /\ running[n].at = "store"
          /\ stats' = [stats EXCEPT ![running[n].counter] =
                                        running[n].local + Increment(n, running[n].counter)]
          /\ running' =
                [running EXCEPT ![n] =
                    IF running[n].counter = "files_processed"
                    THEN [at |-> "load", counter |-> "bytes_processed", local |-> 0]
                    ELSE [at |-> "done", counter |-> running[n].counter, local |-> 0]]
    /\ UNCHANGED <<pc, sanVars, walkVars, inputVars, encodeVars, detected_format, fenceVars,
                   combineVars, archiveVars, splitVars, result, completed, faults>>

\* the read that starts the += of bytes_processed
WorkerLoad ==
    /\ pc = "collect"
    /\ \E n \in DOMAIN running :
          /\ running[n].at = "load"
          /\ running' = [running EXCEPT ![n].at = "store",
                                        ![n].local = stats[running[n].counter]]
    /\ UNCHANGED <<pc, sanVars, walkVars, inputVars, encodeVars, detected_format, fenceVars,
                   combineVars, archiveVars, splitVars, result, stats, completed, faults>>

\* one turn of the loop over as_completed: a future that is done, whichever
\* it is: its result, if it has one, is appended
CollectOne ==
    /\ pc = "collect"
    /\ \E n \in DOMAIN running :
          /\ running[n].at = "done"
          /\ completed' = completed \cup {n}
          /\ running' = [m \in DOMAIN running \ {n} |-> running[m]]
          /\ IF running[n].counter = "bytes_processed"
             THEN file_entries' =
                     Append(file_entries, FileMetadataOf(n, source_files[n]))
             ELSE UNCHANGED file_entries
    /\ UNCHANGED <<pc, sanVars, walkVars, inputVars, encodeVars, detected_format, fenceVars, source_files, tempVars, archiveVars, splitVars,
                   result, stats, faults>>

\* the pool is done: no entries, or the sort
CollectSort ==
    /\ pc = "collect"
    /\ Pending = {}
    /\ IF file_entries = <<>>
       THEN /\ result' = FALSE
            /\ pc' = "combine_done"
            /\ UNCHANGED file_entries
       ELSE /\ file_entries' = SortEntries(file_entries)
            /\ pc' = "write"
            /\ UNCHANGED result
    /\ UNCHANGED <<sanVars, walkVars, inputVars, encodeVars, scanVars, detected_format, fenceVars, source_files, tempVars, archiveVars, splitVars>>

NextOrder ==
    WorkerStart \/ WorkerStore \/ WorkerLoad \/ CollectOne \/ CollectSort \/ CombineWrite

SpecOrder == InitOrder /\ [][NextOrder]_vars

(***************************************************************************)
(* The same pool over files that may fail at collection: a file that is    *)
(* gone, or cannot be accessed, when _should_exclude looks at it           *)
(* ("access"), and a file whose stat() fails after it has passed the       *)
(* filter ("stat").  The archive is written as txt.                        *)
(***************************************************************************)
FaultKinds == {"access", "stat"}

InitCollect ==
    /\ pc = "collect"
    /\ exit_status = <<>>
    /\ progress = TRUE
    /\ stream_error = "none"
    /\ unsafe_relative_path = <<>>
    /\ sanitized = NotYet
    /\ fence_content = <<>>
    /\ fence = <<>>
    /\ \E names \in SUBSET SourceNames :
          \E failing \in SUBSET names :
             \E kinds \in [failing -> FaultKinds] :
                /\ source_files = [n \in names |-> SourceData(n)]
                /\ faults = kinds
    /\ file_entries = <<>>
    /\ format = "txt"
    /\ archive = <<>>
    /\ parsed = <<>>
    /\ files_list = <<>>
    /\ out_files = <<>>
    /\ out_dirs = {<<>>, OutputRoot, LinkTarget}
    /\ files_restored = 0
    /\ result = "none"
    /\ restore_log = <<>>
    /\ NoTemp
    /\ NoEncode
    /\ config = [max_file_size |-> DEFAULT_MAX_FILE_SIZE,
                 include_patterns |-> <<>>,
                 exclude_patterns |-> DefaultExcludes,
                 _gitignore_spec |-> [loaded |-> FALSE, ignored |-> {}],
                 max_workers |-> MaxWorkers,
                 max_depth |-> DEFAULT_MAX_DEPTH,
                 follow_symlinks |-> FALSE]
    /\ NoWalk
    /\ stats = NoStats
    /\ completed = {}
    /\ running = <<>>
    /\ NamedByFormat

SpecCollect == InitCollect /\ [][NextOrder]_vars

(***************************************************************************)
(* _scan_directory.  Under source_path, directory 0, there are the         *)
(* directories 1 and 2: "a" in source_path, and "b" in source_path or in   *)
(* "a".  Every directory holds the file "f" and may hold the symbolic link *)
(* "l" to any of the three directories, its own included; the source      *)
(* directory or "b" may hold "k", a symbolic link to a file; the           *)
(* directories 1 and 2 may refuse to be listed.  tree gives for each directory its     *)
(* items in the order of their names.  A call of scan_recursive is a frame *)
(* of scan_stack: its path, its depth, the directory the path resolves to, *)
(* and the items its loop has still to look at.                            *)
(***************************************************************************)
ScanDirs == {0, 1, 2}

\* what stands for the target of an item that is no link
NoLink == Cardinality(ScanDirs)

MaxScanDepth == 3

\* the items of directory d, as sorted(current_path.iterdir()) gives them
ItemsOf(d, parent_of_b, links, file_links) ==
    (IF d = 0 THEN <<[name |-> "a", kind |-> "dir", target |-> 1]>> ELSE <<>>)
    \o (IF d = parent_of_b THEN <<[name |-> "b", kind |-> "dir", target |-> 2]>> ELSE <<>>)
    \o <<[name |-> "f", kind |-> "file", target |-> NoLink]>>
    \o (IF d \in file_links
        THEN <<[name |-> "k", kind |-> "file link", target |-> NoLink]>> ELSE <<>>)
    \o (IF links[d] # NoLink THEN <<[name |-> "l", kind |-> "link", target |-> links[d]]>>
        ELSE <<>>)

TreesWith(file_link_sets) ==
    {[d \in ScanDirs |-> [items |-> ItemsOf(d, parent_of_b, links, file_links),
                          listable |-> d \notin denied]] :
        parent_of_b \in {0, 1}, links \in [ScanDirs -> ScanDirs \cup {NoLink}],
        denied \in SUBSET {1, 2}, file_links \in file_link_sets}

\* the trees without a link to a file, and those with one, in the source
\* directory or in "b"
ScanTrees == TreesWith({{}})
LinkTrees == TreesWith({{0}, {2}})

InitScanOver(trees) ==
    /\ pc = "scan"
    /\ exit_status = <<>>
    /\ progress = TRUE
    /\ stream_error = "none"
    /\ unsafe_relative_path = <<>>
    /\ sanitized = NotYet
    /\ fence_content = <<>>
    /\ fence = <<>>
    /\ source_files = <<>>
    /\ file_entries = <<>>
    /\ format = "txt"
    /\ archive = <<>>
    /\ parsed = <<>>
    /\ files_list = <<>>
    /\ out_files = <<>>
    /\ out_dirs = {<<>>, OutputRoot, LinkTarget}
    /\ files_restored = 0
    /\ result = "none"
    /\ restore_log = <<>>
    /\ NoTemp
    /\ NoEncode
    /\ \E depth \in 0..MaxScanDepth, follow \in BOOLEAN :
          config = [max_file_size |-> DEFAULT_MAX_FILE_SIZE,
                    include_patterns |-> <<>>,
                    exclude_patterns |-> DefaultExcludes,
                    _gitignore_spec |-> [loaded |-> FALSE, ignored |-> {}],
                    max_workers |-> 1,
                    max_depth |-> depth,
                    follow_symlinks |-> follow]
    /\ stats = NoStats
    /\ completed = {}
    /\ running = <<>>
    /\ faults = <<>>
    /\ tree \in trees
    /\ scan_stack = <<>>
    /\ visited_dirs = {}
    /\ all_files = <<>>
    /\ scan_log = <<>>
    /\ NamedByFormat

InitScan == InitScanOver(ScanTrees)

InitLinks == InitScanOver(LinkTrees)

\* a call scan_recursive(current_path, depth), current_path resolving to real
ScanCall(current_path, depth, real) ==
    [current_path |-> current_path, depth |-> depth, real |-> real,
     at |-> "enter", items |-> <<>>]

\* a scan that keeps no record of the directories it has been to
NeverVisited(real_path, visited) == FALSE

\* lines 1012-1013: real_path in visited_dirs
AlreadyVisited(real_path, visited) == real_path \in visited

\* line 1027: item.is_file() follows a symbolic link: it is True of a file
\* and of a link to a file
is_file(item) == item.kind \in {"file", "file link"}

\* line 1029: the directory item is gone into
GoesInto(item, follow_symlinks) == follow_symlinks \/ item.kind # "link"

\* the stack after the call on its top has returned, and where that leaves
\* _scan_directory: line 1039 returns files once the first call is back
Returned(stack) == SubSeq(stack, 1, Len(stack) - 1)
PcAfterReturn(stack) == IF Len(stack) = 1 THEN "scanned" ELSE "scanning"

\* lines 1001-1002 and 1038: files and visited_dirs are empty and
\* scan_recursive(source_path) is called
ScanStart ==
    /\ pc = "scan"
    /\ scan_stack' = <<ScanCall(<<>>, 0, 0)>>
    /\ visited_dirs' = {}
    /\ all_files' = <<>>
    /\ pc' = "scanning"
    /\ UNCHANGED <<sanVars, fenceVars, combineVars, archiveVars, splitVars, result,
                   inputVars, scanVars, encodeVars, detected_format, tree, scan_log>>

\* lines 1005-1022: the call on top of the stack starts: too deep, it warns
\* and returns; on a real path already visited it returns; else the path is
\* visited and the directory listed, or the listing fails with a warning
ScanEnter ==
    /\ pc = "scanning"
    /\ LET call == scan_stack[Len(scan_stack)] IN
       /\ call.at = "enter"
       /\ IF call.depth > config.max_depth
          THEN /\ scan_log' = Append(scan_log, [event |-> "too deep",
                                                 current_path |-> call.current_path,
                                                 real |-> call.real])
               /\ scan_stack' = Returned(scan_stack)
               /\ pc' = PcAfterReturn(scan_stack)
               /\ UNCHANGED visited_dirs
          ELSE IF AlreadyVisited(call.real, visited_dirs)
          THEN /\ scan_stack' = Returned(scan_stack)
               /\ pc' = PcAfterReturn(scan_stack)
               /\ UNCHANGED <<visited_dirs, scan_log>>
          ELSE /\ visited_dirs' = visited_dirs \cup {call.real}
               /\ IF tree[call.real].listable
                  THEN /\ scan_log' = Append(scan_log, [event |-> "listed",
                                                         current_path |-> call.current_path,
                                                         real |-> call.real])
                       /\ scan_stack' =
                             [scan_stack EXCEPT ![Len(scan_stack)] =
                                 [call EXCEPT !.at = "loop",
                                              !.items = tree[call.real].items]]
                       /\ UNCHANGED pc
                  ELSE /\ scan_log' = Append(scan_log, [event |-> "cannot scan",
                                                         current_path |-> call.current_path,
                                                         real |-> call.real])
                       /\ scan_stack' = Returned(scan_stack)
                       /\ pc' = PcAfterReturn(scan_stack)
    /\ UNCHANGED <<sanVars, fenceVars, combineVars, archiveVars, splitVars, result,
                   inputVars, scanVars, encodeVars, detected_format, tree, all_files>>

\* lines 1024-1030: one turn of the loop over the items: a file joins files;
\* a directory, or with follow_symlinks a link to one, is gone into
ScanItem ==
    /\ pc = "scanning"
    /\ LET call == scan_stack[Len(scan_stack)] IN
       /\ call.at = "loop"
       /\ call.items # <<>>
       /\ LET item == Head(call.items)
              rest == [scan_stack EXCEPT ![Len(scan_stack)].items = Tail(call.items)]
          IN  IF is_file(item)
              THEN /\ all_files' = Append(all_files, call.current_path \o <<item.name>>)
                   /\ scan_stack' = rest
              ELSE IF GoesInto(item, config.follow_symlinks)
              THEN /\ scan_stack' = Append(rest, ScanCall(call.current_path \o <<item.name>>,
                                                          call.depth + 1, item.target))
                   /\ UNCHANGED all_files
              ELSE /\ scan_stack' = rest
                   /\ UNCHANGED all_files
    /\ UNCHANGED <<pc, sanVars, fenceVars, combineVars, archiveVars, splitVars, result,
                   inputVars, scanVars, encodeVars, detected_format, tree, visited_dirs,
                   scan_log>>

\* the loop over the items is over: the call returns
ScanReturn ==
    /\ pc = "scanning"
    /\ LET call == scan_stack[Len(scan_stack)] IN
       /\ call.at = "loop"
       /\ call.items = <<>>
       /\ scan_stack' = Returned(scan_stack)
       /\ pc' = PcAfterReturn(scan_stack)
    /\ UNCHANGED <<sanVars, fenceVars, combineVars, archiveVars, splitVars, result,
                   inputVars, scanVars, encodeVars, detected_format, tree, visited_dirs,
                   all_files, scan_log>>

\* line 1108: str(file_path.relative_to(base_path)), the names with "/"
\* between them
RECURSIVE relative_to(_)
relative_to(path) ==
    IF Len(path) <= 1 THEN path
    ELSE <<Head(path), "/">> \o relative_to(Tail(path))

\* lines 579 and 600-602: file_path.stat() follows a symbolic link, so the
\* mode is a regular file's for the file "f" and for the link "k" to a file
IsRegularFile(path) == path[Len(path)] \in {"f", "k"}

\* _should_exclude for a file the scan returned; the files of the tree are
\* empty
ScanExcluded(path) ==
    \/ _should_exclude(<<>>, relative_to(path), config).excluded
    \/ ~IsRegularFile(path)

\* combine_files, lines 875-960, after the scan of a directory: every file
\* the scan returned goes through _collect_file_metadata, and the entries
\* of the files kept are sorted by path
ScanCollect ==
    /\ pc = "scanned"
    /\ LET kept == {i \in 1..Len(all_files) : ~ScanExcluded(all_files[i])}
       IN  /\ file_entries' =
                 SortByPath({FileMetadataOf(relative_to(all_files[i]), <<>>) : i \in kept})
           /\ stats' = [files_processed |-> Cardinality(kept),
                        files_skipped |-> Len(all_files) - Cardinality(kept),
                        bytes_processed |-> 0,
                        errors |-> 0]
    /\ pc' = "scan_collected"
    /\ UNCHANGED <<sanVars, fenceVars, source_files, tempVars, archiveVars, splitVars,
                   result, inputVars, completed, running, faults, encodeVars,
                   detected_format, walkVars>>

\* a step of _scan_directory
ScanStep == ScanStart \/ ScanEnter \/ ScanItem \/ ScanReturn

NextScan == ScanStep \/ ScanCollect

SpecScan == InitScan /\ [][NextScan]_vars

SpecLinks == InitLinks /\ [][NextScan]_vars

\* _scan_directory is a plain function of one thread: it goes on as long as
\* it has a step to take
SpecScanFair == SpecScan /\ WF_vars(ScanStep)

(***************************************************************************)
(* combine_files with a configured filter.  The directory holds the four   *)
(* files of SourceNames: a.bin of one byte, the others of two.  The limit  *)
(* on the size is one byte or two; the include patterns and the user's     *)
(* exclude patterns are none, one of Patterns, or the pair "a", "*.bin";   *)
(* no .gitignore is loaded, or one that matches a.txt, or one that matches *)
(* a/a.txt and a.bin.  The pool finishes the files in any order.           *)
(***************************************************************************)
Patterns ==
    {<<"*", ".", "txt">>, <<"a", ".", "*">>, <<"a">>, <<"a", "/", "**">>,
     <<"**", "/", "a", ".", "txt">>}

PatternLists == SeqsUpTo(Patterns, 1) \cup {<< <<"a">>, <<"*", ".", "bin">> >>}

GitignoreSpecs ==
    {[loaded |-> FALSE, ignored |-> {}],
     [loaded |-> TRUE, ignored |-> {TextName}],
     [loaded |-> TRUE, ignored |-> {SubdirName, DataName}]}

InitFilter ==
    /\ pc = "collect"
    /\ exit_status = <<>>
    /\ progress = TRUE
    /\ stream_error = "none"
    /\ unsafe_relative_path = <<>>
    /\ sanitized = NotYet
    /\ fence_content = <<>>
    /\ fence = <<>>
    /\ source_files = [n \in SourceNames |-> SourceData(n)]
    /\ file_entries = <<>>
    /\ format = "txt"
    /\ archive = <<>>
    /\ parsed = <<>>
    /\ files_list = <<>>
    /\ out_files = <<>>
    /\ out_dirs = {<<>>, OutputRoot, LinkTarget}
    /\ files_restored = 0
    /\ result = "none"
    /\ restore_log = <<>>
    /\ NoTemp
    /\ \E size \in {1, 2}, include \in PatternLists, exclude \in PatternLists,
          spec \in GitignoreSpecs :
          config = [max_file_size |-> size,
                    include_patterns |-> include,
                    exclude_patterns |-> exclude \o DefaultExcludes,
                    _gitignore_spec |-> spec,
                    max_workers |-> MaxWorkers,
                 max_depth |-> DEFAULT_MAX_DEPTH,
                 follow_symlinks |-> FALSE]
    /\ NoPool
    /\ NoEncode
    /\ NamedByFormat

SpecFilter == InitFilter /\ [][NextOrder]_vars

(***************************************************************************)
(* combine_files with _write_archive_streaming in steps.  The destination  *)
(* is absent or holds an older archive; _temp_files is empty or names a    *)
(* file left by an earlier call, on disk or gone.  The temporary file is   *)
(* created, grows, and is moved onto the destination; creating, writing    *)
(* and moving can each raise an exception, and the call can be interrupted *)
(* while it writes.  `archive` is what the destination holds.              *)
(***************************************************************************)
OldArchive == <<120>>

TempName == "tmp"

InitWrite ==
    /\ pc = "combine"
    /\ exit_status = <<>>
    /\ progress = TRUE
    /\ stream_error = "none"
    /\ unsafe_relative_path = <<>>
    /\ sanitized = NotYet
    /\ fence_content = <<>>
    /\ fence = <<>>
    /\ \E names \in SUBSET {TextName, DataName} :
          source_files = [n \in names |-> SourceData(n)]
    /\ file_entries = <<>>
    /\ format \in {"txt", "json", "markdown"}
    /\ archive \in {<<>>, OldArchive}
    /\ parsed = <<>>
    /\ files_list = <<>>
    /\ out_files = <<>>
    /\ out_dirs = {<<>>, OutputRoot, LinkTarget}
    /\ files_restored = 0
    /\ result = "none"
    /\ restore_log = <<>>
    /\ \E left \in {"none", "gone", "on disk"} :
          /\ _temp_files = IF left = "none" THEN <<>> ELSE <<"left">>
          /\ temp_disk = [n \in (IF left = "on disk" THEN {"left"} ELSE {}) |-> <<120>>]
    /\ NoScan
    /\ NamedByFormat

\* the entries as _write_format_streaming reads them
EntriesRead ==
    [i \in 1..Len(file_entries) |->
       _read_file_content(file_entries[i], source_files[file_entries[i].path])]

\* the bytes of the complete archive
CompleteArchive == Utf8Encode(_write_format_streaming(EntriesRead, format))

\* lines 1287-1296: NamedTemporaryFile in output_path.parent, which can raise
WriteStart ==
    /\ pc = "write"
    /\ \E created \in BOOLEAN :
          IF created
          THEN /\ temp_disk' = [n \in (DOMAIN temp_disk) \cup {TempName} |->
                                  IF n = TempName THEN <<>> ELSE temp_disk[n]]
               /\ _temp_files' = Append(_temp_files, TempName)
               /\ pc' = "writing"
               /\ UNCHANGED result
          ELSE /\ result' = FALSE
               /\ pc' = "cleanup"
               /\ UNCHANGED tempVars
    /\ UNCHANGED <<sanVars, walkVars, inputVars, encodeVars, scanVars, detected_format, fenceVars, source_files, file_entries, archiveVars, splitVars>>

\* a writer that opens the destination itself
ChunkToDestination ==
    /\ pc = "writing"
    /\ \E n \in (Len(temp_disk[TempName]) + 1)..Len(CompleteArchive) :
          /\ temp_disk' = [temp_disk EXCEPT ![TempName] = SubSeq(CompleteArchive, 1, n)]
          /\ archive' = SubSeq(CompleteArchive, 1, n)
    /\ UNCHANGED <<pc, sanVars, walkVars, inputVars, encodeVars, scanVars, detected_format, fenceVars, source_files, file_entries, _temp_files,
                   format, parsed, splitVars, result>>

\* lines 1298-1312: more of the archive reaches the temporary file
WriteChunk ==
    /\ pc = "writing"
    /\ \E n \in (Len(temp_disk[TempName]) + 1)..Len(CompleteArchive) :
          temp_disk' = [temp_disk EXCEPT ![TempName] = SubSeq(CompleteArchive, 1, n)]
    /\ UNCHANGED <<pc, sanVars, walkVars, inputVars, encodeVars, scanVars, detected_format, fenceVars, source_files, file_entries, _temp_files,
                   archiveVars, splitVars, result>>

\* lines 1314-1319: shutil.move and the return of True
WriteMove ==
    /\ pc = "writing"
    /\ temp_disk[TempName] = CompleteArchive
    /\ archive' = temp_disk[TempName]
    /\ temp_disk' = Unlink(temp_disk, TempName)
    /\ _temp_files' = RemoveFirst(_temp_files, TempName)
    /\ file_entries' = [i \in 1..Len(file_entries) |-> EntriesRead[i].metadata]
    /\ result' = TRUE
    /\ pc' = "cleanup"
    /\ UNCHANGED <<sanVars, walkVars, inputVars, encodeVars, scanVars, detected_format, fenceVars, source_files, format, parsed, splitVars>>

\* lines 1321-1329: an exception while writing or moving; the temporary file
\* is removed and False returned
WriteFail ==
    /\ pc = "writing"
    /\ temp_disk' = Unlink(temp_disk, TempName)
    /\ _temp_files' = RemoveFirst(_temp_files, TempName)
    /\ result' = FALSE
    /\ pc' = "cleanup"
    /\ UNCHANGED <<sanVars, walkVars, inputVars, encodeVars, scanVars, detected_format, fenceVars, source_files, file_entries, archiveVars, splitVars>>

\* an interrupt or a cancellation while writing: no except clause takes it
\* and combine_files returns nothing
WriteInterrupt ==
    /\ pc = "writing"
    /\ pc' = "interrupted"
    /\ UNCHANGED <<sanVars, walkVars, inputVars, encodeVars, scanVars, detected_format, fenceVars, combineVars, archiveVars, splitVars, result>>

\* lines 996-997: the finally clause of combine_files
CombineCleanup ==
    /\ pc \in {"cleanup", "interrupted"}
    /\ temp_disk' = _cleanup_temp_files(temp_disk, _temp_files).disk
    /\ _temp_files' = _cleanup_temp_files(temp_disk, _temp_files).temp_files
    /\ pc' = IF pc = "interrupted" THEN "combine_raised" ELSE "combine_done"
    /\ UNCHANGED <<sanVars, walkVars, inputVars, encodeVars, scanVars, detected_format, fenceVars, source_files, file_entries, archiveVars, splitVars,
                   result>>

NextWrite ==
    \/ CombineCollect
    \/ WriteStart
    \/ WriteChunk
    \/ WriteMove
    \/ WriteFail
    \/ WriteInterrupt
    \/ CombineCleanup

SpecWrite == InitWrite /\ [][NextWrite]_vars

(***************************************************************************)
(* combine_files and split_files on whatever they are given.  Either the   *)
(* run starts at combine_files: the source is missing, a file, an empty    *)
(* directory or a directory that holds a.txt, the archive is written in    *)
(* any of the five formats, compressed or not, under a name of any of the  *)
(* InputSuffixes, and split_files is called on it.  Or the run starts at   *)
(* split_files on a path that is missing, a directory, or a file that no   *)
(* combine_files wrote: a text of up to MaxTextLen characters out of "x",  *)
(* line feed, space and "{", the start tag "<a>", or a byte that is not    *)
(* UTF-8; as it is, compressed, or compressed and cut short.  The output   *)
(* directory does not exist yet.                                           *)
(***************************************************************************)
MaxTextLen == 3

TextAlphabet == {120, LF, SPACE, 123}

NonArchiveTexts == SeqsUpTo(TextAlphabet, MaxTextLen)

MalformedXml == <<60, 97, 62>>

InvalidUtf8 == <<255>>

FormatSuffixes == {".txt", ".json", ".xml", ".yaml", ".md"}

InputSuffixes ==
    {<<>>, <<".dat">>, <<".gz">>, <<".dat", ".gz">>}
    \cup {<<e>> : e \in FormatSuffixes} \cup {<<e, ".gz">> : e \in FormatSuffixes}

\* the bytes of a file that holds the data as it is, compressed, or
\* compressed with the end of the member missing
Wrap(data, how) ==
    CASE how = "gzip" -> GzipCompress(data)
      [] how = "cut" -> GzipMagic \o data
      [] OTHER -> data

InitInput ==
    /\ exit_status = <<>>
    /\ progress = TRUE
    /\ stream_error = "none"
    /\ unsafe_relative_path = <<>>
    /\ sanitized = NotYet
    /\ fence_content = <<>>
    /\ fence = <<>>
    /\ file_entries = <<>>
    /\ parsed = <<>>
    /\ files_list = <<>>
    /\ out_files = <<>>
    /\ out_dirs = {<<>>}
    /\ files_restored = 0
    /\ result = "none"
    /\ restore_log = <<>>
    /\ NoTemp
    /\ NoScan
    /\ detected_format = "none"
    /\ input_suffixes \in InputSuffixes
    /\ \/ /\ pc = "combine"
          /\ source_kind \in {"missing", "file", "dir"}
          /\ source_files \in (IF source_kind = "dir"
                               THEN {<<>>, [n \in {TextName} |-> <<120, LF>>]}
                               ELSE {<<>>})
          /\ format \in Formats
          /\ input_kind = "file"
          /\ archive = <<>>
       \/ /\ pc = "split"
          /\ source_kind = "dir"
          /\ source_files = <<>>
          /\ format = "txt"
          /\ input_kind \in {"missing", "dir", "file"}
          /\ IF input_kind = "file"
             THEN \E text \in NonArchiveTexts \cup {MalformedXml, InvalidUtf8},
                     how \in {"plain", "gzip", "cut"} :
                     archive = Wrap(text, how)
             ELSE archive = <<>>

NextInput ==
    \/ CombineCollect
    \/ \E compress \in BOOLEAN : CombineWriteAs(compress)
    \/ SplitOpen
    \/ RestoreEntry
    \/ SplitReturn

SpecInput == InitInput /\ [][NextInput]_vars

(***************************************************************************)
(* combine_files without a format argument, then split_files on the        *)
(* archive it wrote: the writer takes the format from the name of the      *)
(* output path, the reader detects it from the same name and the content.  *)
(***************************************************************************)
\* no --format argument
NoFormatArg == ""

\* _detect_output_format(output_path, format_arg) for a path of these
\* suffixes
_detect_output_format(suffixes, format_arg) ==
    IF format_arg # NoFormatArg THEN format_arg
    ELSE FormatOfSuffix(IF suffixes = <<>> THEN "" ELSE suffixes[Len(suffixes)])

OutputSuffixes ==
    InputSuffixes \cup {<<e>> : e \in {".yml", ".markdown"}}
    \cup {<<e, ".gz">> : e \in {".yml", ".markdown"}}

InitAgree ==
    /\ pc = "combine"
    /\ exit_status = <<>>
    /\ progress = TRUE
    /\ stream_error = "none"
    /\ unsafe_relative_path = <<>>
    /\ sanitized = NotYet
    /\ fence_content = <<>>
    /\ fence = <<>>
    /\ file_entries = <<>>
    /\ parsed = <<>>
    /\ files_list = <<>>
    /\ out_files = <<>>
    /\ out_dirs = {<<>>}
    /\ files_restored = 0
    /\ result = "none"
    /\ restore_log = <<>>
    /\ NoTemp
    /\ NoScan
    /\ detected_format = "none"
    /\ source_kind = "dir"
    /\ input_kind = "file"
    /\ \E names \in (SUBSET {TextName, OtherTextName}) \ {{}} :
          source_files = [n \in names |-> <<120, LF>>]
    /\ archive = <<>>
    /\ \E suffixes \in OutputSuffixes :
          /\ input_suffixes = suffixes
          /\ format = _detect_output_format(suffixes, NoFormatArg)

SpecAgree == InitAgree /\ [][NextInput]_vars

(***************************************************************************)
(* combine_files with the encoder's loop in steps.  The directory holds    *)
(* any of the four files of SourceNames, and any of them cannot be opened  *)
(* when the encoder comes to read it (no read permission).  A read is a    *)
(* task: created by asyncio.create_task, it starts once the encoder        *)
(* awaits, runs _read_content_for_entry in a thread, which settles the     *)
(* entry's metadata, and is done.  What lies between two awaits of the     *)
(* encoder is one step: the event loop runs nothing else meanwhile.        *)
(***************************************************************************)
None == [ok |-> FALSE, bytes |-> <<>>]

\* a task as asyncio.create_task returns it
\* a task that is done when it is created and holds no content of the file
FinishedTask == [state |-> "done", content |-> [ok |-> TRUE, bytes |-> <<>>], reads |-> 1]

\* lines 1378-1380 and 1389-1391: the task asyncio.create_task returns
NewTask == [state |-> "created", content |-> None, reads |-> 0]

\* the header each encoder writes before its loop
EncoderHeader(format_type, entries) ==
    CASE format_type = "json" -> <<JSON_OPEN, CountBase + Len(entries)>>
      [] format_type = "xml" -> <<XML_DECL, LF, XML_OPEN, LF>>
      [] format_type = "yaml" -> _write_yaml_streaming(<<>>)
      [] format_type = "markdown" ->
            <<HASH, SPACE, MD_TITLE, LF, LF>>
            \o <<MD_GENERATED, SPACE, SPACE, LF>> \o <<MD_DATE, SPACE, SPACE, LF>>
            \o <<MD_BOLD, SPACE, BACKTICK, MD_TEXT, BACKTICK, SPACE, SPACE, LF>>
            \o MdBoldLine \o MdBoldLine \o <<LF>>
            \o <<HASH, HASH, SPACE, MD_TOC, LF, LF>>
            \o Flatten([k \in 1..Len(entries) |-> <<MD_TEXT, LF>>]) \o <<LF>>
      [] OTHER -> TxtHeader

\* write_txt_entry, write_xml_entry, write_yaml_entry, write_md_entry and
\* lines 1512-1523: the text of one entry; xml names the position of the
\* entry among those written
EncoderEntry(format_type, metadata, content, position) ==
    CASE format_type = "json" -> JsonEntry(metadata, ContentText(content))
      [] format_type = "xml" -> <<SPACE, SPACE, XmlBase + position, LF>>
      [] format_type = "yaml" -> write_yaml_entry(metadata, ContentText(content))
      [] format_type = "markdown" -> write_md_entry(metadata, ContentText(content))
      [] OTHER -> TxtEntry(metadata, ContentText(content))

\* what each encoder writes after its loop
EncoderFooter(format_type) ==
    CASE format_type = "json" -> <<JSON_CLOSE>>
      [] format_type = "xml" -> <<XML_CLOSE>>
      [] OTHER -> <<>>

\* lines 1386-1391 and 1501-1506: the reads the loop starts in the turn of
\* entry at, of total entries, before it writes that entry
PrefetchTwo(at, total) ==
    IF at + 2 <= total THEN <<at + 1, at + 2>>
    ELSE IF at + 1 <= total THEN <<at + 1>> ELSE <<>>

PrefetchAfter(at, total) == IF at + 1 <= total THEN <<at + 1>> ELSE <<>>

\* lines 1508-1513: the separator _write_json_streaming writes before an entry
CommaByIndex(is_first, at) == IF at > 1 THEN <<JSON_COMMA>> ELSE <<>>

JsonSeparator(is_first, at) == IF ~is_first THEN <<JSON_COMMA>> ELSE <<>>

\* the tasks by state
TasksIn(ts, state) == {j \in DOMAIN ts : ts[j].state = state}

InitPrefetch ==
    /\ pc = "combine"
    /\ exit_status = <<>>
    /\ progress = TRUE
    /\ stream_error = "none"
    /\ unsafe_relative_path = <<>>
    /\ sanitized = NotYet
    /\ fence_content = <<>>
    /\ fence = <<>>
    /\ \E names \in SUBSET SourceNames, locked \in SUBSET SourceNames :
          /\ locked \subseteq names
          /\ source_files = [n \in names |-> SourceData(n)]
          /\ unreadable = locked
    /\ file_entries = <<>>
    /\ format \in Formats
    /\ archive = <<>>
    /\ parsed = <<>>
    /\ files_list = <<>>
    /\ out_files = <<>>
    /\ out_dirs = {<<>>, OutputRoot, LinkTarget}
    /\ files_restored = 0
    /\ result = "none"
    /\ restore_log = <<>>
    /\ NoTemp
    /\ config = [max_file_size |-> DEFAULT_MAX_FILE_SIZE,
                 include_patterns |-> <<>>,
                 exclude_patterns |-> DefaultExcludes,
                 _gitignore_spec |-> [loaded |-> FALSE, ignored |-> {}],
                 max_workers |-> 1,
                 max_depth |-> DEFAULT_MAX_DEPTH,
                 follow_symlinks |-> FALSE]
    /\ NoPool
    /\ tasks = <<>>
    /\ issued = <<>>
    /\ write_log = <<>>
    /\ entry_index = 0
    /\ first_entry = TRUE
    /\ sink = <<>>
    /\ NamedByFormat

\* the encoder up to its first await: the header, and with entries the task
\* that reads the first of them
EncodeStart ==
    /\ pc = "write"
    /\ sink' = EncoderHeader(format, file_entries)
    /\ first_entry' = TRUE
    /\ IF file_entries = <<>>
       THEN /\ pc' = "footer"
            /\ UNCHANGED <<tasks, issued, entry_index>>
       ELSE /\ tasks' = (1 :> NewTask)
            /\ issued' = <<1>>
            /\ entry_index' = 1
            /\ pc' = "await"
    /\ UNCHANGED <<sanVars, walkVars, inputVars, scanVars, detected_format, fenceVars, combineVars,
                   archiveVars, splitVars, result, unreadable, write_log>>

\* _read_content_async as the event loop starts it, while the encoder
\* awaits: the read goes to a thread
TaskRun ==
    /\ pc = "await"
    /\ \E j \in TasksIn(tasks, "created") :
          tasks' = [tasks EXCEPT ![j].state = "running", ![j].reads = @ + 1]
    /\ UNCHANGED <<pc, sanVars, walkVars, inputVars, scanVars, detected_format, fenceVars, combineVars,
                   archiveVars, splitVars, result, unreadable, issued, write_log,
                   entry_index, first_entry, sink>>

\* _read_content_for_entry in its thread: None for a file that cannot be
\* opened, or the content, and the metadata as _read_file_content leaves it
TaskDone ==
    /\ \E j \in TasksIn(tasks, "running") :
          LET path == file_entries[j].path
              read == _read_file_content(file_entries[j], source_files[path])
          IN  IF path \in unreadable
              THEN /\ tasks' = [tasks EXCEPT ![j].state = "done"]
                   /\ UNCHANGED file_entries
              ELSE /\ tasks' = [tasks EXCEPT ![j].state = "done",
                                             ![j].content =
                                                [ok |-> TRUE, bytes |-> read.content]]
                   /\ file_entries' = [file_entries EXCEPT ![j] = read.metadata]
    /\ UNCHANGED <<pc, sanVars, walkVars, inputVars, scanVars, detected_format, fenceVars, source_files,
                   tempVars, archiveVars, splitVars, result, unreadable, issued,
                   write_log, entry_index, first_entry, sink>>

\* one turn of the encoder's loop, from the await that returns the content
\* of the entry to the next await: the next read is created, then the
\* entry is written unless its content is None
LoopTurn ==
    /\ pc = "await"
    /\ entry_index \in TasksIn(tasks, "done")
    /\ LET total == Len(file_entries)
           content == tasks[entry_index].content
           prefetch == PrefetchAfter(entry_index, total)
           created == [j \in DOMAIN tasks \cup {prefetch[k] : k \in DOMAIN prefetch} |->
                          IF j \in DOMAIN tasks THEN tasks[j] ELSE NewTask]
           position == Len(parsed) + 1
       IN  /\ tasks' = created
           /\ issued' = issued \o prefetch
           /\ IF content.ok
              THEN /\ sink' = sink
                              \o (IF format = "json"
                                  THEN JsonSeparator(first_entry, entry_index)
                                  ELSE <<>>)
                              \o EncoderEntry(format, file_entries[entry_index],
                                              content.bytes, position)
                   /\ first_entry' = IF format = "json" THEN FALSE ELSE first_entry
                   /\ parsed' = IF format \in {"xml", "yaml"}
                                THEN parsed \o _write_with_prefetch(
                                        << [metadata |-> file_entries[entry_index],
                                            content |-> content.bytes] >>)
                                ELSE parsed
                   /\ write_log' = Append(write_log,
                                          [entry |-> entry_index,
                                           created |-> DOMAIN created,
                                           done |-> TasksIn(created, "done")])
              ELSE UNCHANGED <<sink, first_entry, parsed, write_log>>
           /\ entry_index' = entry_index + 1
           /\ pc' = IF entry_index = total THEN "footer" ELSE "await"
    /\ UNCHANGED <<sanVars, walkVars, inputVars, scanVars, detected_format, fenceVars, combineVars,
                   format, archive, splitVars, result, unreadable>>

\* the rest of the encoder and of combine_files: the footer, the move of the
\* temporary file onto the destination
EncodeFinish ==
    /\ pc = "footer"
    /\ sink' = sink \o EncoderFooter(format)
    /\ archive' = Utf8Encode(sink \o EncoderFooter(format))
    /\ result' = TRUE
    /\ pc' = "split"
    /\ UNCHANGED <<sanVars, walkVars, inputVars, scanVars, detected_format, fenceVars, combineVars,
                   format, parsed, splitVars, unreadable, tasks, issued, write_log,
                   entry_index, first_entry>>

NextPrefetch ==
    \/ CombineCollect
    \/ EncodeStart
    \/ TaskRun
    \/ TaskDone
    \/ LoopTurn
    \/ EncodeFinish
    \/ SplitOpen
    \/ RestoreEntry
    \/ SplitReturn

SpecPrefetch == InitPrefetch /\ [][NextPrefetch]_vars

(***************************************************************************)
(* combine_files from the call of _write_archive_streaming on, with the    *)
(* handler of SIGINT and SIGTERM in view.  The metadata of one to three    *)
(* files has been collected; the destination is absent or holds an older   *)
(* archive.  Python runs the handler in the main thread between two        *)
(* instructions of whatever that thread executes, so the handler is a step *)
(* that can come after any other: before the temporary file exists, after  *)
(* NamedTemporaryFile has created it, after its name has joined            *)
(* _temp_files, while the encoder awaits a read or writes, after the move. *)
(* sink is what the encoder has written to the temporary file.             *)
(***************************************************************************)
InitSignal ==
    /\ pc = "create_temp"
    /\ exit_status = <<>>
    /\ progress = TRUE
    /\ stream_error = "none"
    /\ unsafe_relative_path = <<>>
    /\ sanitized = NotYet
    /\ fence_content = <<>>
    /\ fence = <<>>
    /\ \E names \in (SUBSET {TextName, OtherTextName, DataName}) \ {{}} :
          /\ source_files = [n \in names |-> SourceData(n)]
          /\ file_entries = SortByPath({FileMetadataOf(n, SourceData(n)) : n \in names})
          /\ stats = [files_processed |-> Cardinality(names),
                      files_skipped |-> 0,
                      bytes_processed |->
                          SumSizes(SortByPath({FileMetadataOf(n, SourceData(n)) :
                                                 n \in names})),
                      errors |-> 0]
          /\ completed = names
    /\ format \in {"txt", "json"}
    /\ archive \in {<<>>, OldArchive}
    /\ parsed = <<>>
    /\ files_list = <<>>
    /\ out_files = <<>>
    /\ out_dirs = {<<>>, OutputRoot, LinkTarget}
    /\ files_restored = 0
    /\ result = "none"
    /\ restore_log = <<>>
    /\ NoTemp
    /\ config = [max_file_size |-> DEFAULT_MAX_FILE_SIZE,
                 include_patterns |-> <<>>,
                 exclude_patterns |-> DefaultExcludes,
                 _gitignore_spec |-> [loaded |-> FALSE, ignored |-> {}],
                 max_workers |-> 1,
                 max_depth |-> DEFAULT_MAX_DEPTH,
                 follow_symlinks |-> FALSE]
    /\ running = <<>>
    /\ faults = <<>>
    /\ NoWalk
    /\ NoEncode
    /\ NamedByFormat

\* lines 1289-1295: NamedTemporaryFile creates the file in the directory of
\* the destination
TempCreate ==
    /\ pc = "create_temp"
    /\ temp_disk' = [n \in (DOMAIN temp_disk) \cup {TempName} |->
                       IF n = TempName THEN <<>> ELSE temp_disk[n]]
    /\ pc' = "temp_created"
    /\ UNCHANGED <<sanVars, walkVars, inputVars, scanVars, encodeVars, detected_format,
                   fenceVars, source_files, file_entries, _temp_files, archiveVars,
                   splitVars, result>>

\* line 1296: self._temp_files.append(temp_file.name); the file is then
\* opened again for the encoder
TempRegister ==
    /\ pc = "temp_created"
    /\ _temp_files' = Append(_temp_files, TempName)
    /\ pc' = "write"
    /\ UNCHANGED <<sanVars, walkVars, inputVars, scanVars, encodeVars, detected_format,
                   fenceVars, source_files, file_entries, temp_disk, archiveVars,
                   splitVars, result>>

\* the encoder's footer, the file closed, and line 1315: shutil.move puts the
\* temporary file in the place of the destination
TempMove ==
    /\ pc = "footer"
    /\ sink' = sink \o EncoderFooter(format)
    /\ archive' = Utf8Encode(sink \o EncoderFooter(format))
    /\ temp_disk' = Unlink(temp_disk, TempName)
    /\ pc' = "moved"
    /\ UNCHANGED <<sanVars, walkVars, inputVars, scanVars, detected_format, fenceVars,
                   source_files, file_entries, _temp_files, format, parsed, splitVars,
                   result, unreadable, tasks, issued, write_log, entry_index,
                   first_entry>>

\* lines 1316-1318 and 996-997: the name leaves _temp_files, True is
\* returned through the finally clause of combine_files
TempUnregister ==
    /\ pc = "moved"
    /\ temp_disk' = _cleanup_temp_files(temp_disk, RemoveFirst(_temp_files, TempName)).disk
    /\ _temp_files' =
          _cleanup_temp_files(temp_disk, RemoveFirst(_temp_files, TempName)).temp_files
    /\ result' = TRUE
    /\ pc' = "combine_done"
    /\ UNCHANGED <<sanVars, walkVars, inputVars, scanVars, encodeVars, detected_format,
                   fenceVars, source_files, file_entries, archiveVars, splitVars>>

\* where the main thread can be when a signal comes
SignalPoints == {"create_temp", "temp_created", "write", "await", "footer", "moved"}

\* lines 225-229: signal_handler: _cleanup_temp_files
HandlerCleanup(disk, temp_files) == _cleanup_temp_files(disk, temp_files)

\* lines 225-229 and 3050: signal_handler cleans up and raises SystemExit(130)
\* where the main thread stands.  No except clause of the program takes it
\* (they name Exception); it leaves the event loop, asyncio.run cancels the
\* tasks that have not started and lets the thread of a read under way
\* finish, and the process exits with the status.
SignalHandler ==
    /\ pc \in SignalPoints
    /\ temp_disk' = HandlerCleanup(temp_disk, _temp_files).disk
    /\ _temp_files' = HandlerCleanup(temp_disk, _temp_files).temp_files
    /\ tasks' = [j \in DOMAIN tasks |->
                   IF tasks[j].state = "created"
                   THEN [tasks[j] EXCEPT !.state = "cancelled"] ELSE tasks[j]]
    /\ exit_status' = <<130>>
    /\ pc' = "exited"
    /\ UNCHANGED <<sanVars, walkVars, source_kind, input_kind, input_suffixes, config,
                   progress, stream_error, scanVars, detected_format, fenceVars, source_files, file_entries,
                   archiveVars, splitVars, result, unreadable, issued, write_log,
                   entry_index, first_entry, sink>>

NextSignal ==
    \/ TempCreate
    \/ TempRegister
    \/ EncodeStart
    \/ TaskRun
    \/ TaskDone
    \/ LoopTurn
    \/ TempMove
    \/ TempUnregister
    \/ SignalHandler

SpecSignal == InitSignal /\ [][NextSignal]_vars

(***************************************************************************)
(* Claims about the sanitizer.                                             *)
(***************************************************************************)
\* the path once backslashes are "/" and leading "/" are gone, as components
StrippedParts(raw) == Split(LStrip(Replace(raw, "\\", "/"), "/"), "/")

\* where the stripped path leads when it is followed from the output root
JoinedTarget(raw) == Resolve(OutputRoot \o StrippedParts(raw))

UnderRoot(path) ==
    /\ Len(path) >= Len(OutputRoot)
    /\ \A i \in 1..Len(OutputRoot) : path[i] = OutputRoot[i]

HasDotDot(raw) == \E i \in 1..Len(StrippedParts(raw)) : IsParentDir(StrippedParts(raw)[i])

\* C2: a path whose ".." components, after backslashes are turned into "/" and
\* leading "/" are stripped, make the joined path resolve outside the output
\* root is refused with a SecurityError and no path is returned.
C2_TraversalRejected ==
    (pc = "sanitize_done" /\ HasDotDot(unsafe_relative_path)
        /\ ~UnderRoot(JoinedTarget(unsafe_relative_path)))
    => (sanitized.outcome = "SecurityError" /\ sanitized.path = NoPath)

C2_Witness ==
    /\ pc = "sanitize_done"
    /\ unsafe_relative_path = <<"a", "\\", "..", "\\", "..">>
    /\ sanitized.outcome = "SecurityError"
    /\ sanitized.reason = "traversal"

\* C3: a path without null byte that stays inside the root once its leading
\* slashes are stripped (absolute-looking or ordinary) is accepted, and the path
\* returned is the root joined with the stripped path, which is under the root.
C3_InsideAccepted ==
    (pc = "sanitize_done" /\ ~HasNullByte(unsafe_relative_path)
        /\ UnderRoot(JoinedTarget(unsafe_relative_path)))
    => (/\ sanitized.outcome = "ok"
        /\ sanitized.path = JoinedTarget(unsafe_relative_path)
        /\ UnderRoot(sanitized.path))

C3_Witness ==
    /\ pc = "sanitize_done"
    /\ unsafe_relative_path = <<"/", "a", "/", "a">>
    /\ sanitized.outcome = "ok"
    /\ sanitized.path = << <<"a">>, <<"a">>, <<"a">> >>

\* C4: a path that contains a null byte, whatever the rest of it is, is refused
\* with a SecurityError, and no target path is built from it.
C4_NullByteRejected ==
    (pc = "sanitize_done"
        /\ \E i \in 1..Len(unsafe_relative_path) : unsafe_relative_path[i] = "NUL")
    => (/\ sanitized.outcome = "SecurityError"
        /\ sanitized.reason = "null"
        /\ sanitized.path = NoPath)

C4_Witness ==
    /\ pc = "sanitize_done"
    /\ unsafe_relative_path = <<"a", ".", "a", "NUL", ".">>
    /\ sanitized.outcome = "SecurityError"
    /\ sanitized.reason = "null"

(***************************************************************************)
(* Claims about the fence.                                                 *)
(***************************************************************************)
IsRunAt(content, i, n) == \A j \in i..(i + n - 1) : content[j] = "BT"

\* the longest run of consecutive backticks in the content
LongestRun(content) ==
    CHOOSE n \in 0..Len(content) :
        /\ \E i \in 1..(Len(content) - n + 1) : IsRunAt(content, i, n)
        /\ \A m \in (n + 1)..Len(content) :
               ~\E i \in 1..(Len(content) - m + 1) : IsRunAt(content, i, m)

\* C10: the fence is made of backticks only; when the longest run of backticks
\* in the content is 3 or longer the fence is exactly one longer than that run,
\* and otherwise it is exactly three backticks.
C10_SafeFence ==
    pc = "fence_done" =>
        /\ \A i \in 1..Len(fence) : fence[i] = "BT"
        /\ LongestRun(fence_content) >= 3 =>
               /\ Len(fence) = LongestRun(fence_content) + 1
               /\ Len(fence) > LongestRun(fence_content)
        /\ LongestRun(fence_content) < 3 => Len(fence) = 3

C10_Witness ==
    /\ pc = "fence_done"
    /\ fence_content = <<"x", "BT", "BT", "BT", "BT", "\n">>
    /\ Len(fence) = 5

(***************************************************************************)
(* Claims about split_files on hostile archives.                           *)
(***************************************************************************)
\* the path is one the output directory may receive a file under
Acceptable(raw) ==
    /\ \A i \in 1..Len(raw) : raw[i] # "NUL"
    /\ UnderRoot(JoinedTarget(raw))

StrictlyUnderRoot(path) == UnderRoot(path) /\ Len(path) > Len(OutputRoot)

\* C1: whatever the format and the paths of the archive, at every step of
\* split_files each file written so far lies strictly under the resolved
\* output directory, at the path the sanitizer returned for the entry; the
\* file outside the output directory is as it was and no directory has been
\* made outside it.
C1_PathContainment ==
    pc \in {"split", "restoring", "split_done"} =>
        /\ \A i \in 1..Len(restore_log) :
              restore_log[i].wrote # NoPath =>
                  /\ StrictlyUnderRoot(restore_log[i].wrote)
                  /\ Resolve(restore_log[i].wrote) = restore_log[i].wrote
                  /\ Acceptable(restore_log[i].path)
                  /\ _sanitize_path(OutputRoot, restore_log[i].path)
                        = Sanitized(restore_log[i].wrote)
        /\ \A p \in DOMAIN out_files :
              \/ StrictlyUnderRoot(p)
              \/ p = Victim /\ out_files[p] = VictimData
        /\ \A d \in out_dirs : UnderRoot(d) \/ d \in {<<>>, LinkTarget}

C1_Witness ==
    /\ pc = "split_done"
    /\ format = "txt"
    /\ Len(restore_log) = 3
    /\ restore_log[1].path = PathTable[4] /\ restore_log[1].raised = "SecurityError"
    /\ restore_log[2].path = PathTable[5] /\ restore_log[2].raised = "SecurityError"
    /\ restore_log[3].wrote = OutputRoot \o <<TextName>>
    /\ DOMAIN out_files = {Victim, OutputRoot \o <<TextName>>}

\* what restoring an entry of the archive writes
EntryData(e) == IF e.is_binary THEN <<0>> ELSE <<120, LF>>

\* the last entry of the archive that names the path
LastNaming(raw) ==
    parsed[CHOOSE i \in 1..Len(parsed) :
              /\ parsed[i].path = raw
              /\ \A j \in (i + 1)..Len(parsed) : parsed[j].path # raw]

\* C5: when split_files is done with an archive that mixes entries whose path
\* is refused with entries whose path is acceptable, it has returned True, made
\* one restore call per entry, refused exactly the entries with an
\* unacceptable path and written nothing for them, and every acceptable entry,
\* before or after a refused one, is in the output directory with its content
\* (of a YAML archive: with its content first, whatever follows it).
C5_MixedArchive ==
    pc = "split_done" =>
        /\ result = TRUE
        /\ Len(restore_log) = Len(parsed)
        /\ \A i \in 1..Len(parsed) :
              /\ restore_log[i].path = parsed[i].path
              /\ ~Acceptable(parsed[i].path) =>
                    /\ restore_log[i].raised = "SecurityError"
                    /\ restore_log[i].wrote = NoPath
              /\ Acceptable(parsed[i].path) =>
                    /\ restore_log[i].raised = "none"
                    /\ restore_log[i].wrote = JoinedTarget(parsed[i].path)
                    /\ JoinedTarget(parsed[i].path) \in DOMAIN out_files
                    /\ LET written == out_files[JoinedTarget(parsed[i].path)]
                           data == EntryData(LastNaming(parsed[i].path))
                       IN  IF format = "yaml" THEN HasPrefix(written, data)
                           ELSE written = data
        /\ DOMAIN out_files
              = {Victim} \cup {JoinedTarget(parsed[i].path) :
                                 i \in {j \in 1..Len(parsed) : Acceptable(parsed[j].path)}}
        /\ out_files[Victim] = VictimData

C5_Witness ==
    /\ pc = "split_done"
    /\ result = TRUE
    /\ format = "txt"
    /\ Len(parsed) = 3
    /\ parsed[1] = TextEntry(TextName)
    /\ parsed[2] = Base64Entry(PathTable[5])
    /\ parsed[3] = Base64Entry(OtherTextName)
    /\ restore_log[2].raised = "SecurityError"
    /\ out_files[OutputRoot \o <<TextName>>] = <<120, LF>>
    /\ out_files[OutputRoot \o <<OtherTextName>>] = <<0>>

(***************************************************************************)
(* Claims about combine_files followed by split_files.                     *)
(***************************************************************************)
RestoredPath(name) == OutputRoot \o <<name>>

\* the file is in the output directory with exactly these bytes
RestoredAs(name, data) ==
    /\ RestoredPath(name) \in DOMAIN out_files
    /\ out_files[RestoredPath(name)] = data

HasCR(data) == \E i \in 1..Len(data) : data[i] = CR

\* the bytes with every CRLF and every lone CR turned into LF
WithLF(data) ==
    LET kept == SelectSeq(Indices(data),
                          LAMBDA i : ~(data[i] = LF /\ i > 1 /\ data[i - 1] = CR))
    IN  [k \in 1..Len(kept) |-> IF data[kept[k]] = CR THEN LF ELSE data[kept[k]]]

\* a line of the file is the separator line or starts with a prefix the txt
\* parser looks for
HasMarkerLine(data) ==
    \E i \in 1..Len(data) :
       /\ i = 1 \/ data[i - 1] \in {LF, CR}
       /\ \/ data[i] \in {METADATA_PREFIX, ENCODING_PREFIX}
          \/ data[i] = SEPARATOR /\ (i = Len(data) \/ data[i + 1] \in {LF, CR})

\* the program takes the file for binary: its name is no text name and it
\* holds a zero byte or mostly bytes that do not print
IsBinaryFile(name, data) ==
    /\ Suffix(name) \notin TextExtensions
    /\ data # <<>>
    /\ \/ \E i \in 1..Len(data) : data[i] = 0
       \/ 10 * Cardinality({i \in 1..Len(data) : IsPrintable(data[i])}) < 7 * Len(data)

\* text in UTF-8 whose lines end in LF
IsLfUtf8Text(name, data) ==
    ~IsBinaryFile(name, data) /\ Utf8Decode(data).ok /\ ~HasCR(data)

RoundTripDone == pc = "split_done" /\ DOMAIN source_files # {}

\* C6: after combine_files and split_files in the txt format, every UTF-8
\* text file of the source directory whose lines end in LF (any lines, with
\* or without a final newline, or empty) and every binary file is in the
\* output directory with exactly its original bytes.
C6_TxtRoundTrip ==
    (RoundTripDone /\ format = "txt") =>
        \A n \in DOMAIN source_files :
           (IsBinaryFile(n, source_files[n]) \/ IsLfUtf8Text(n, source_files[n]))
              => RestoredAs(n, source_files[n])

\* the elements of the "files" array of the archive written
ArchiveFiles == JsonLoadsArchive(Utf8Decode(archive).text)

\* C7: after combine_files and split_files in the JSON format, the "files"
\* array has one element per source file, the element of a binary file has
\* is_binary true and encoding base64, and every file whose lines end in LF
\* (text, binary or empty) is in the output directory byte-identical to its
\* source.
C7_JsonRoundTrip ==
    (RoundTripDone /\ format = "json") =>
        /\ ArchiveFiles.ok
        /\ Len(ArchiveFiles.files) = Cardinality(DOMAIN source_files)
        /\ \A n \in DOMAIN source_files :
              /\ \E i \in 1..Len(ArchiveFiles.files) : ArchiveFiles.files[i].path = n
              /\ \A i \in 1..Len(ArchiveFiles.files) :
                    (ArchiveFiles.files[i].path = n /\ IsBinaryFile(n, source_files[n]))
                       => /\ ArchiveFiles.files[i].is_binary
                          /\ ArchiveFiles.files[i].encoding = "base64"
              /\ (IsBinaryFile(n, source_files[n]) \/ ~HasCR(source_files[n]))
                    => RestoredAs(n, source_files[n])

\* C8: after combine_files and split_files, a text file whose bytes are not
\* UTF-8, and so is read in one of the other encodings, is in the output
\* directory with exactly the bytes of the source file (its lines end in LF
\* and none of them is a marker line of the txt format).
C8_EncodingRoundTrip ==
    RoundTripDone =>
        \A n \in DOMAIN source_files :
           (/\ ~IsBinaryFile(n, source_files[n])
            /\ ~Utf8Decode(source_files[n]).ok
            /\ ~HasCR(source_files[n])
            /\ ~HasMarkerLine(source_files[n]))
              => RestoredAs(n, source_files[n])

\* C9: after combine_files and split_files, a text file whose lines end in LF
\* is in the output directory unchanged, and a text file with CR or CRLF line
\* ends is there with each of them replaced by one LF.
C9_LineEndings ==
    RoundTripDone =>
        \A n \in DOMAIN source_files :
           ~IsBinaryFile(n, source_files[n])
              => RestoredAs(n, WithLF(source_files[n]))

(***************************************************************************)
(* Claims about the markdown archive.                                      *)
(***************************************************************************)
\* the markdown parser has built files_list and has restored nothing yet
MarkdownParsed == format = "markdown" /\ pc = "restoring" /\ restore_log = <<>>

\* C11: whatever runs of backticks a text content holds, anywhere on a line
\* or as whole lines, the markdown archive written from it parses back to
\* exactly that content for its entry, and the parser finds as many entries
\* as were written.
C11_MarkdownFence ==
    MarkdownParsed =>
        /\ Len(files_list) = Len(file_entries)
        /\ \A i \in 1..Len(file_entries) :
              /\ files_list[i].metadata.path = file_entries[i].path
              /\ ~file_entries[i].is_binary =>
                    JoinLines(files_list[i].content_lines)
                        = source_files[file_entries[i].path]

C11_Witness ==
    /\ MarkdownParsed
    /\ Len(files_list) = 2
    /\ source_files[TextName] = <<BACKTICK, BACKTICK, BACKTICK, BACKTICK>>
    /\ ~file_entries[1].is_binary
    /\ files_list[1].content_lines = << <<BACKTICK, BACKTICK, BACKTICK, BACKTICK>> >>
    /\ files_list[2].content_lines = << <<BACKTICK, BACKTICK, BACKTICK>>, <<>> >>

(***************************************************************************)
(* Claims about combine_files.                                             *)
(***************************************************************************)
\* the paths of the entries of the archive, in the order they have in it
ArchivePaths ==
    CASE format \in {"txt", "json"} ->
           LET syms == SelectSeq(archive, IsJsonSym)
           IN  [i \in 1..Len(syms) |-> JsonValue(syms[i]).path]
      [] format \in {"markdown", "yaml"} ->
           LET syms == SelectSeq(archive, IsPathSym)
               \* the table of contents gives no path symbol
           IN  [i \in 1..Len(syms) |-> PathTable[syms[i] - MdBase - 100]]
      [] OTHER -> [i \in 1..Len(parsed) |-> parsed[i].path]

ArchiveWritten == pc = "split" /\ result = TRUE

\* C12: whatever the order in which the worker pool hands the files back, the
\* archive written, in each of the five formats, holds one entry per file
\* and the entries stand in ascending order of their path strings.
C12_SortedEntries ==
    ArchiveWritten =>
        /\ {ArchivePaths[i] : i \in 1..Len(ArchivePaths)} = DOMAIN source_files
        /\ \A i, j \in 1..Len(ArchivePaths) :
              i < j => StrLess(PathString(ArchivePaths[i]), PathString(ArchivePaths[j]))

C12_Witness ==
    /\ ArchiveWritten
    /\ format = "yaml"
    /\ ArchivePaths = <<DataName, TextName, SubdirName, OtherTextName>>

\* C13: while combine_files runs, the destination holds what it held before
\* or the complete new archive: it changes in one step only, the move of a
\* temporary file that holds the complete archive, on the way to returning
\* True; a call that fails leaves it as it was.
C13_AtomicWrite ==
    [][archive' # archive =>
          /\ TempName \in DOMAIN temp_disk
          /\ temp_disk[TempName] = CompleteArchive
          /\ archive' = CompleteArchive
          /\ TempName \notin DOMAIN temp_disk'
          /\ result' = TRUE]_vars

C13_Witness ==
    /\ pc = "combine_done"
    /\ result = TRUE
    /\ archive = CompleteArchive
    /\ archive # OldArchive
    /\ Len(file_entries) = 2

Foreign == file_entries = <<>> /\ input_kind = "file"

\* the text the input holds, when it holds text: its bytes, decompressed
\* when they are a whole gzip member
HeldText(data) ==
    IF _is_gzip_file(data) THEN GzipRead(data) ELSE [ok |-> TRUE, data |-> data]

C16_Preconditions ==
    /\ (pc = "combine_done" /\ (source_kind # "dir" \/ DOMAIN source_files = {}))
       => (result = FALSE /\ archive = <<>>)
    /\ (pc = "split_done" /\ input_kind # "file") => result = FALSE

C16_Witness ==
    /\ pc = "split_done"
    /\ input_kind = "dir"
    /\ result = FALSE
    /\ out_dirs = {<<>>}

\* C17: when the input is a .json file that holds no JSON document, or a
\* .xml file that holds no well-formed XML, split_files returns False
C17_UnparseableFails ==
    (pc = "split_done" /\ Foreign
       /\ input_suffixes \in {<<".json">>, <<".xml">>}
       /\ archive \in NonArchiveTexts \cup {MalformedXml})
    => result = FALSE

\* the input is an archive combine_files wrote, and split_files has returned
SplitOfCombined == pc = "split_done" /\ file_entries # <<>>

\* C19: an archive written compressed is read as gzip whatever its name
\* says, and an archive written uncompressed under a name that ends in .gz
\* is read again as plain text by the parser of its format: in both cases
\* split_files returns True and a.txt is restored
C19_GzipFallback ==
    /\ (SplitOfCombined /\ _is_gzip_file(archive)
          /\ input_suffixes = <<SuffixOfFormat(format)>>)
       => (result = TRUE /\ RestoredPath(TextName) \in DOMAIN out_files)
    /\ (SplitOfCombined /\ input_suffixes = <<SuffixOfFormat(format), ".gz">>)
       => (result = TRUE /\ RestoredPath(TextName) \in DOMAIN out_files)

\* the suffix of the name that stands for its format: the one before .gz
\* when there is one
DecidingSuffix(suffixes) ==
    IF suffixes = <<>> THEN ""
    ELSE IF suffixes[Len(suffixes)] = ".gz" /\ Len(suffixes) >= 2
    THEN suffixes[Len(suffixes) - 1]
    ELSE suffixes[Len(suffixes)]

\* C20: of an archive combine_files wrote, _detect_input_format returns the
\* format of the extension when the extension is that of a format, and
\* otherwise the format the archive was written in
C20_FormatDetection ==
    (detected_format # "none" /\ file_entries # <<>>)
    => detected_format =
          IF DecidingSuffix(input_suffixes) \in FormatSuffixes
          THEN FormatOfSuffix(DecidingSuffix(input_suffixes))
          ELSE format

(***************************************************************************)
(* Claims about the filter of combine_files.                               *)
(***************************************************************************)
\* the size is within the limit, .gitignore does not match, no exclude
\* pattern matches, and an include pattern matches if there is any
Kept(n) ==
    /\ SizeOf(source_files[n]) <= config.max_file_size
    /\ ~(config._gitignore_spec.loaded /\ n \in config._gitignore_spec.ignored)
    /\ ~_matches_pattern(n, config.exclude_patterns)
    /\ config.include_patterns = <<>> \/ _matches_pattern(n, config.include_patterns)

EntryPaths == {file_entries[i].path : i \in 1..Len(file_entries)}

\* of the files whose future is done, those with an entry are those within
\* the size limit that .gitignore and the exclude patterns do not match and
\* that an include pattern matches when there is one
EntriesAreKept == EntryPaths = {n \in completed : Kept(n)}

\* C18: of the files whose metadata is collected, those with an entry are
\* those within the size limit that .gitignore and the exclude patterns do
\* not match and that an include pattern matches when there is one, and
\* once the pool is done files_skipped counts the others
C18_FileFilter ==
    /\ EntriesAreKept
    /\ Pending = {} =>
          stats.files_skipped = Cardinality({n \in DOMAIN source_files : ~Kept(n)})

C18_Witness ==
    /\ pc = "write"
    /\ config.max_file_size = 2
    /\ ~config._gitignore_spec.loaded
    /\ config.include_patterns = << <<"*", ".", "txt">> >>
    /\ config.exclude_patterns = << <<"a", "/", "**">> >> \o DefaultExcludes
    /\ _matches_pattern(SubdirName, config.include_patterns)
    /\ EntryPaths = {TextName, OtherTextName}
    /\ stats.files_skipped = 2

(***************************************************************************)
(* Claims about the encoder's loop.                                        *)
(***************************************************************************)
\* the reads created and not done yet
Outstanding == DOMAIN tasks \ TasksIn(tasks, "done")

EncoderDone == pc \in {"footer", "split", "restoring", "split_done"}

\* C21: whenever an entry is written, its read is done, the read of the next
\* entry, if there is one, has been created and no read beyond it has; no
\* entry has two reads created or run, every entry has had its one read when
\* the encoder is done, and never more than two reads are outstanding.
C21_ReadAhead ==
    /\ \A k \in DOMAIN write_log :
          LET w == write_log[k] IN
          /\ w.entry \in w.done
          /\ w.entry < Len(file_entries) => w.entry + 1 \in w.created
          /\ \A j \in w.created : j <= w.entry + 1
    /\ \A k, m \in DOMAIN issued : issued[k] = issued[m] => k = m
    /\ \A j \in DOMAIN tasks : tasks[j].reads <= 1
    /\ EncoderDone =>
          /\ issued = [k \in 1..Len(file_entries) |-> k]
          /\ \A j \in 1..Len(file_entries) : tasks[j].state = "done" /\ tasks[j].reads = 1
    /\ Cardinality(Outstanding) <= 2

\* the second of three entries has just been written and the read of the
\* third, created before that write, has not started
C21_Witness ==
    /\ pc = "await"
    /\ Len(file_entries) = 3
    /\ Len(write_log) = 2
    /\ write_log[2].entry = 2
    /\ 3 \in write_log[2].created
    /\ tasks[3].state = "created"

\* the encoder holds the list: from the call of _write_format_streaming to
\* its return
Encoding == pc \in {"write", "await", "footer"}

\* C22 as stated: from the moment the encoder holds the sorted list, no field
\* of any record changes until the encoder is done.
C22_RecordsImmutable == [][Encoding => file_entries' = file_entries]_vars

\* C22, amended: while the encoder holds the list, a record changes only
\* when its own read completes, and then only in encoding, is_binary and
\* ends_with_newline; once its read is done, so from its write on, it never
\* changes, and the list keeps its length and order.
C22_SettledByRead ==
    [][Encoding =>
          /\ Len(file_entries') = Len(file_entries)
          /\ \A j \in DOMAIN file_entries :
                file_entries'[j] # file_entries[j] =>
                   /\ j \in TasksIn(tasks, "running")
                   /\ j \in TasksIn(tasks', "done")
                   /\ [file_entries'[j] EXCEPT !.encoding = "", !.is_binary = FALSE,
                                               !.ends_with_newline = FALSE]
                      = [file_entries[j] EXCEPT !.encoding = "", !.is_binary = FALSE,
                                                !.ends_with_newline = FALSE]]_vars

\* the read of the first entry, a text file that ends with a line feed, is
\* done and has set ends_with_newline, which _collect_file_metadata left False
C22_Witness ==
    /\ pc = "await"
    /\ 1 \in TasksIn(tasks, "done")
    /\ tasks[1].content.ok
    /\ file_entries[1].path = TextName
    /\ file_entries[1].ends_with_newline
    /\ ~FileMetadataOf(TextName, source_files[TextName]).ends_with_newline

\* the entries whose content could be read, in the order of file_entries
ReadableEntries == SelectSeq(file_entries, LAMBDA e : e.path \notin unreadable)

\* C23: the text _write_json_streaming has written is one JSON document,
\* whichever entries had no content to write: its "files" array holds the
\* entries that could be read, in order, with one comma between each two of
\* them and none before the first or after the last; so is the text it
\* writes for no entry at all.
C23_JsonDocument ==
    /\ JsonLoadsArchive(EncoderHeader("json", <<>>) \o EncoderFooter("json"))
          = [ok |-> TRUE, files |-> <<>>]
    /\ (pc = "split" /\ format = "json") =>
          LET document == JsonLoadsArchive(sink)
              commas == Len(SelectSeq(sink, LAMBDA c : c = JSON_COMMA))
          IN  /\ document.ok
              /\ archive = Utf8Encode(sink)
              /\ Len(document.files) = Len(ReadableEntries)
              /\ \A k \in DOMAIN document.files :
                    document.files[k].path = ReadableEntries[k].path
              /\ commas = Max(Len(ReadableEntries) - 1, 0)
              /\ sink[Len(sink) - 1] # JSON_COMMA
              /\ sink[3] # JSON_COMMA

\* three entries, the first without content: the two others are written
C23_Witness ==
    /\ pc = "split"
    /\ format = "json"
    /\ Len(file_entries) = 3
    /\ file_entries[1].path \in unreadable
    /\ Len(ReadableEntries) = 2
    /\ Len(write_log) = 2
    /\ JsonLoadsArchive(sink).ok

(***************************************************************************)
(* Claims about the decoders.                                              *)
(***************************************************************************)
\* the txt decoder C24 describes: once the ENCODING line of an entry has
\* been read, every line that is no separator is content, whatever it
\* starts with
RECURSIVE VerbatimParse(_, _, _, _, _)
VerbatimParse(lines, current_metadata, current_encoding, current_content, in_content) ==
    IF lines = <<>>
    THEN IF current_metadata.ok
         THEN <<FileCall(current_metadata.value, current_encoding, current_content)>>
         ELSE <<>>
    ELSE LET line == RStrip(Head(lines), {LF, CR})
             rest == Tail(lines)
         IN  IF line = <<SEPARATOR>>
             THEN (IF current_metadata.ok
                   THEN <<FileCall(current_metadata.value, current_encoding,
                                   current_content)>>
                   ELSE <<>>)
                  \o VerbatimParse(rest, NoMetadata, "None", <<>>, FALSE)
             ELSE IF in_content /\ current_metadata.ok
             THEN VerbatimParse(rest, current_metadata, current_encoding,
                                Append(current_content, line), in_content)
             ELSE IF StartsWith(line, METADATA_PREFIX)
             THEN LET loaded == JsonLoads(Strip(Tail(line)))
                  IN  IF loaded.ok
                      THEN VerbatimParse(rest, loaded, current_encoding, current_content,
                                         FALSE)
                      ELSE VerbatimParse(rest, current_metadata, current_encoding,
                                         current_content, in_content)
             ELSE IF StartsWith(line, ENCODING_PREFIX)
             THEN VerbatimParse(rest, current_metadata, TxtEncoding(Strip(Tail(line))),
                                current_content, TRUE)
             ELSE VerbatimParse(rest, current_metadata, current_encoding,
                                current_content, in_content)

\* split_files has parsed the archive and has made no restore call yet
JustParsed == pc = "restoring" /\ restore_log = <<>>

\* C24: of a txt archive, the calls the decoder makes are those of the
\* reading in which every line after an entry's ENCODING line, up to the
\* next separator line, is content and leaves metadata and encoding alone.
C24_VerbatimContent ==
    (JustParsed /\ format = "txt") =>
        files_list = VerbatimParse(FileLines(ReadText(archive, FALSE).text),
                                   NoMetadata, "None", <<>>, FALSE)

\* C25: of a markdown archive, each entry's binary flag and encoding after
\* the parse are those of the "**Binary:**" and "**Encoding:**" lines the
\* writer put before the entry's opening fence; no line of the fenced block
\* changes them.
C25_MetadataBeforeFence ==
    MarkdownParsed =>
        /\ Len(files_list) = Len(file_entries)
        /\ \A i \in 1..Len(file_entries) :
              /\ files_list[i].metadata.is_binary = file_entries[i].is_binary
              /\ files_list[i].encoding
                    = MdEncoding(<<SPACE, EncSym(file_entries[i].encoding), SPACE, SPACE>>)

\* the list item has the shape the YAML parser supports
SupportedShape(e) == YamlIsInt(e.size_text) /\ YamlIsFloat(e.mtime_text)

\* C26: when split_files is done with a YAML archive, every list item of the
\* supported shape has been handed to _restore_file and its file is in the
\* output directory, whatever the shape of the other items of the archive.
C26_OtherEntriesRestored ==
    (pc = "split_done" /\ format = "yaml" /\ detected_format = "yaml") =>
        \A i \in 1..Len(parsed) :
            SupportedShape(parsed[i]) =>
                /\ \E k \in 1..Len(restore_log) :
                      /\ restore_log[k].path = parsed[i].path
                      /\ restore_log[k].raised = "none"
                /\ RestoredPath(parsed[i].path) \in DOMAIN out_files

\* C27: after combine_files and split_files in the YAML or the markdown
\* format, every text file is in the output directory with exactly the
\* content of its source: without a line feed at its end when the source has
\* none, the empty file included, and with exactly one when the source has
\* one.
C27_TrailingNewline ==
    (pc = "split_done" /\ format \in {"yaml", "markdown"} /\ result = TRUE) =>
        \A i \in 1..Len(file_entries) :
            ~file_entries[i].is_binary =>
                /\ RestoredPath(file_entries[i].path) \in DOMAIN out_files
                /\ out_files[RestoredPath(file_entries[i].path)]
                      = source_files[file_entries[i].path]

(***************************************************************************)
(* Claims about the worker pool.                                           *)
(***************************************************************************)
\* every future has come out of as_completed
PoolDrained == Pending = {}

\* C28: once the pool has drained, whatever the interleaving of its threads,
\* files_processed + files_skipped + errors is the number of files scanned
\* and bytes_processed is the sum of the sizes of the files collected.
C28_AtomicCounters ==
    PoolDrained =>
        /\ stats.files_processed + stats.files_skipped + stats.errors
              = Cardinality(DOMAIN source_files)
        /\ stats.bytes_processed = SumSizes(file_entries)

\* the files whose collection fails
Failing == DOMAIN faults

\* C29: once the pool has drained, every file whose collection failed has no
\* entry and has been counted once in errors, every other file has its
\* entry, and with an entry at hand combine_files has not given up.
C29_FailuresCounted ==
    PoolDrained =>
        /\ EntryPaths = DOMAIN source_files \ Failing
        /\ stats.errors = Cardinality(Failing)
        /\ file_entries # <<>> => ~(pc = "combine_done" /\ result = FALSE)

(***************************************************************************)
(* Claims about the scan.                                                  *)
(***************************************************************************)
\* no directory, as its real path names it, is listed twice, and no file is
\* found twice
ListedOnce ==
    /\ \A i, j \in 1..Len(scan_log) :
          (i < j /\ scan_log[i].event = "listed" /\ scan_log[j].event = "listed")
             => scan_log[i].real # scan_log[j].real
    /\ \A i, j \in 1..Len(all_files) : i < j => all_files[i] # all_files[j]

\* a call deeper than max_depth has warned and listed nothing, and the
\* warnings are those of such calls
DepthRespected ==
    \A i \in 1..Len(scan_log) :
        (scan_log[i].event = "too deep")
            <=> (Len(scan_log[i].current_path) > config.max_depth)

\* C30: _scan_directory returns, on every directory graph, with or without
\* follow_symlinks and links that close a cycle; on its way no real path is
\* listed twice, and a directory deeper than max_depth is passed over with a
\* warning.
C30_ScanTerminates ==
    /\ <>(pc = "scanned")
    /\ [](ListedOnce /\ DepthRespected)

C30_Witness ==
    /\ pc = "scanned"
    /\ config.follow_symlinks
    /\ config.max_depth = 2
    /\ \E k \in 1..Len(tree[1].items) :
          tree[1].items[k] = [name |-> "l", kind |-> "link", target |-> 0]
    /\ \E k \in 1..Len(tree[2].items) :
          tree[2].items[k] = [name |-> "l", kind |-> "link", target |-> 0]
    /\ \E i \in 1..Len(scan_log) :
          scan_log[i] = [event |-> "too deep", current_path |-> <<"a", "b", "l">>,
                         real |-> 0]
    /\ visited_dirs = {0, 1, 2}
    /\ all_files = << <<"a", "b", "f">>, <<"a", "f">>, <<"f">> >>

(***************************************************************************)
(* Claims about symbolic links.                                            *)
(***************************************************************************)
\* the path names a symbolic link, or a file reached through one
ThroughLink(path) == \E i \in 1..Len(path) : path[i] \in {"k", "l"}

\* without follow_symlinks no directory is listed through a symbolic link
NoLinkedDirListed ==
    ~config.follow_symlinks =>
        \A i \in 1..Len(scan_log) :
            scan_log[i].event = "listed" => ~ThroughLink(scan_log[i].current_path)

\* C31: with follow_symlinks disabled no entry of the archive is a symbolic
\* link or lies in a directory reached through one, and no directory is gone
\* into through a link.
C31_NoSymlinkEntries ==
    /\ NoLinkedDirListed
    /\ (pc = "scan_collected" /\ ~config.follow_symlinks) =>
          \A i \in 1..Len(file_entries) : ~ThroughLink(file_entries[i].path)

(***************************************************************************)
(* Claims about base64 payloads.                                           *)
(***************************************************************************)
\* the payload is the base64 encoding of some bytes
IsBase64(payload) ==
    /\ B64Decode(payload).ok
    /\ B64Encode(B64Decode(payload).text) = payload

\* the entries other than entry i are in the output directory with their
\* content (of a YAML archive: with their content first)
OthersRestored(i) ==
    \A j \in (1..Len(parsed)) \ {i} :
        /\ RestoredPath(parsed[j].path) \in DOMAIN out_files
        /\ LET written == out_files[RestoredPath(parsed[j].path)]
           IN  IF format = "yaml" THEN HasPrefix(written, parsed[j].content)
               ELSE written = parsed[j].content

\* what the claim says of entry i
PerFileError(i) ==
    /\ RestoredPath(parsed[i].path) \notin DOMAIN out_files
    /\ OthersRestored(i)
    /\ result = TRUE

\* a payload base64.b64decode refuses is a per-file error
RejectedIsPerFile ==
    pc = "split_done" =>
        \A i \in 1..Len(parsed) :
            (parsed[i].is_binary /\ ~B64Decode(parsed[i].content).ok)
                => PerFileError(i)

\* C32: when split_files is done with an archive that holds a binary entry
\* whose payload is not valid base64, no file has been created for that
\* entry, every other entry is restored and the result is True.
C32_InvalidBase64 ==
    pc = "split_done" =>
        \A i \in 1..Len(parsed) :
            (parsed[i].is_binary /\ ~IsBase64(parsed[i].content)) => PerFileError(i)

(***************************************************************************)
(* Claims about signals.                                                   *)
(***************************************************************************)
\* the step is the handler's
HandlerStep == exit_status = <<>> /\ exit_status' # <<>>

\* what the handler's step leaves: no temporary file, the destination as it
\* was, the exit status 130
CleanExit ==
    /\ TempName \notin DOMAIN temp_disk'
    /\ archive' = archive
    /\ exit_status' = <<130>>

\* once the process is on its way out no read is started, and nothing of
\* the temporary file or the destination changes
NothingAfterExit ==
    exit_status # <<>> =>
        /\ issued' = issued
        /\ \A j \in DOMAIN tasks : tasks'[j].reads = tasks[j].reads
        /\ temp_disk' = temp_disk
        /\ archive' = archive

\* a signal that comes while the temporary file is listed in _temp_files
\* and on disk leaves no temporary file, leaves the destination alone and
\* ends the process with 130; no read starts after it
RegisteredSignal ==
    [][/\ (HandlerStep /\ TempName \in DOMAIN temp_disk
            /\ \E i \in 1..Len(_temp_files) : _temp_files[i] = TempName) => CleanExit
       /\ NothingAfterExit]_vars

\* C33: a signal that comes at any point while the temporary file of
\* combine_files exists leaves no temporary file, leaves the destination as
\* it was, and ends the process with status 130; no read is started after it.
C33_SignalCleanup ==
    [][/\ (HandlerStep /\ TempName \in DOMAIN temp_disk) => CleanExit
       /\ NothingAfterExit]_vars


(***************************************************************************)
(* Claims about the progress flag                                          *)
(***************************************************************************)
\* what split_files leaves in the output directory for this archive when it
\* is called with progress=False
WithoutProgress ==
    RestoreAll(OpenTxtStream(archive, IsCompressed(input_suffixes, archive), FALSE).calls,
               <<>>, {<<>>, OutputRoot, LinkTarget})

\* the stream of the archive hands out all its lines without an exception
StreamIntact ==
    LET is_compressed == IsCompressed(input_suffixes, archive)
        first == StreamOf(archive, is_compressed)
    IN  \/ first.raised = "none"
        \/ /\ first.lines = <<>>
           /\ first.raised = "BadGzipFile"
           /\ StreamOf(archive, FALSE).raised = "none"

\* on a stream that hands out all its lines the flag changes nothing
IntactStreamSame ==
    (pc = "split_done" /\ StreamIntact) => out_files = WithoutProgress.files

\* C34: split_files with progress=True restores the same files with the
\* same contents as with progress=False, whatever the archive's stream
C34_ProgressSame ==
    pc = "split_done" => out_files = WithoutProgress.files

\* a compressed archive whose member does not end well, split with progress
DamagedWithProgress ==
    /\ pc = "split_done"
    /\ progress
    /\ ~StreamIntact
    /\ Len(parsed) >= 2

(***************************************************************************)
(* Claims about the result of combine_files                                *)
(***************************************************************************)
\* combine_files has returned and split_files has not started
CombineReturned == pc \in {"combine_done", "split"}

\* when no file is collected combine_files returns False and writes no
\* archive, and when an entry was written it returns True
NoneCollectedIsFalse ==
    /\ (pc = "combine_done" /\ file_entries = <<>>) => (result = FALSE /\ archive = <<>>)
    /\ (pc = "split" /\ write_log # <<>>) => result = TRUE

\* C35: combine_files returns True exactly when an entry was written to the
\* archive; when every file is dropped, at collection or because every read
\* fails during encoding, it returns False and leaves no archive
C35_TrueIffWritten ==
    CombineReturned =>
        /\ (result = TRUE) <=> (write_log # <<>>)
        /\ write_log = <<>> => (result = FALSE /\ archive = <<>>)

\* every file was collected and none could be read by the encoder
EveryReadFailed ==
    /\ pc = "split"
    /\ file_entries # <<>>
    /\ \A i \in 1..Len(file_entries) : file_entries[i].path \in unreadable

(***************************************************************************)
(* Claims about the record an encoder serialises                           *)
(***************************************************************************)
\* the step writes an entry to the archive
WritesEntry == pc = "await" /\ Len(write_log') = Len(write_log) + 1

\* the record of entry i as the read of its file leaves it
RecordAsRead(i) ==
    LET path == file_entries[i].path
    IN  _read_file_content(FileMetadataOf(path, source_files[path]),
                           source_files[path]).metadata

\* C36: when the encoder writes entry i the read of file i is done and the
\* encoding, is_binary and ends_with_newline it serialises are those that
\* read has set; the only read not yet done at that moment is the one of
\* record i + 1, and no later step changes a record that has been written
C36_SerialisedAsRead ==
    [][/\ WritesEntry =>
            LET i == entry_index
                settled == [file_entries[i] EXCEPT
                              !.encoding = RecordAsRead(i).encoding,
                              !.is_binary = RecordAsRead(i).is_binary,
                              !.ends_with_newline = RecordAsRead(i).ends_with_newline]
            IN  /\ tasks[i].state = "done"
                /\ tasks[i].reads = 1
                /\ sink' = sink
                           \o (IF format = "json" THEN JsonSeparator(first_entry, i)
                               ELSE <<>>)
                           \o EncoderEntry(format, settled, tasks[i].content.bytes,
                                           Len(parsed) + 1)
                /\ \A j \in DOMAIN tasks' : tasks'[j].state # "done" => j = i + 1
                /\ file_entries' = file_entries
       /\ \A k \in DOMAIN write_log :
             file_entries'[write_log[k].entry] = file_entries[write_log[k].entry]]_vars

\* the first of two text files has been written with the fields its read
\* set while the read of the second is in its thread
WrittenDuringPrefetch ==
    /\ pc = "await"
    /\ Len(write_log) = 1
    /\ write_log[1].entry = 1
    /\ file_entries[1].path = TextName
    /\ file_entries[1].ends_with_newline
    /\ tasks[2].state = "running"

(***************************************************************************)
(* Claims about the file count of the header                               *)
(***************************************************************************)
\* lines 1408 and 1494: the count the header records, len(file_entries); in
\* the JSON archive it is read back from the text written
HeaderTotalFiles ==
    IF format = "json" THEN sink[2] - CountBase ELSE Len(file_entries)

\* the entry blocks in the archive
EntryBlocks == Len(write_log)

CountsAgree ==
    /\ HeaderTotalFiles = EntryBlocks
    /\ result = TRUE => stats.files_processed = EntryBlocks

\* when every collected file can be read by the encoder, the header's count,
\* the entry blocks and files_processed agree
AllReadCountsAgree ==
    (pc = "split" /\ \A i \in 1..Len(file_entries) : file_entries[i].path \notin unreadable)
        => CountsAgree

\* C37: in the archive combine_files has written, the header's total_files
\* equals the number of entry blocks, and when combine_files returned True
\* stats['files_processed'] equals that number too
C37_HeaderCount == pc = "split" => CountsAgree

\* an archive of two collected files of which the encoder could read one
OneOfTwoWritten ==
    /\ pc = "split"
    /\ Len(file_entries) = 2
    /\ EntryBlocks = 1

(***************************************************************************)
(* Claims about the count of restored files                                *)
(***************************************************************************)
\* the entries for which a file was written to the output directory
FilesWritten == {i \in DOMAIN restore_log : restore_log[i].wrote # NoPath}

\* the entries for which _restore_file returned without raising
CallsReturned == {i \in DOMAIN restore_log : restore_log[i].raised = "none"}

\* files_restored counts the calls of _restore_file that returned, and every
\* file written is among them
CountsReturnedCalls ==
    /\ files_restored = Cardinality(CallsReturned)
    /\ FilesWritten \subseteq CallsReturned

\* C38: files_restored equals the number of files written to the output
\* directory; an entry whose restoration fails is not counted
C38_CountIsWritten == files_restored = Cardinality(FilesWritten)

\* split_files is done with an archive whose binary entry has a payload
\* base64.b64decode refuses, and no file was written for that entry
RefusedPayloadLogged ==
    /\ pc = "split_done"
    /\ \E i \in DOMAIN restore_log :
          /\ parsed[i].is_binary
          /\ ~B64Decode(parsed[i].content).ok
          /\ restore_log[i].wrote = NoPath

(***************************************************************************)
(* Claims about the format of a path                                       *)
(***************************************************************************)
\* the path ends in .gz after the extension of a format other than txt
FormatBeforeGz ==
    /\ Len(input_suffixes) = 2
    /\ input_suffixes[2] = ".gz"
    /\ FormatOfSuffix(input_suffixes[1]) # "txt"

\* writer and reader agree on every path but those of FormatBeforeGz
OtherPathsAgree ==
    (detected_format # "none" /\ ~FormatBeforeGz)
        => detected_format = _detect_output_format(input_suffixes, NoFormatArg)

\* C39: the format split_files detects for the archive combine_files wrote
\* at a path, without a format argument, is the format combine_files chose
\* from that path, paths that end in .gz included
C39_FormatsAgree ==
    detected_format # "none"
        => detected_format = _detect_output_format(input_suffixes, NoFormatArg)

\* split_files is done with the archive combine_files wrote at x.json.gz
JsonGzSplit ==
    /\ pc = "split_done"
    /\ input_suffixes = <<".json", ".gz">>
    /\ detected_format # "none"

====
